---- MODULE Spec2Model ----
(***************************************************************************)
(* Per-tenant NSID migration of spores.garden: the owner migration of      *)
(* src/config.ts (migrateOwnerNsidRecords), its dependency-injected        *)
(* variant of src/config/nsid-migration.ts (migrateOwnerNsidRecordsImpl),  *)
(* the dual-namespace load (loadUserConfig), saveConfig and the oauth      *)
(* session, at store-call granularity.                                     *)
(***************************************************************************)
EXTENDS Integers, Sequences, FiniteSets, TLC

VARIABLES
  store,                \* the remote repos: store[did][collection] is a function rkey -> value
  nsidMigrationEnabled, \* the rollout flag of config/nsid.ts
  currentAgent,         \* oauth.ts currentAgent, per page (tab)
  currentSession,       \* oauth.ts currentSession (its info.sub), per page
  siteOwnerDid,         \* config.ts siteOwnerDid, per page
  currentConfig,        \* config.ts currentConfig, per page
  run,                  \* position and locals of the async call in flight, per page
  calls,                \* store calls issued by the current/last migration run, per page
  outcome,              \* how the last migration run of the page ended (last), and the
                        \* store when its first successful run ended (first)
  snap,                 \* the store when the last migration run of the page started
  runs,                 \* number of migration runs started, per page
  loaded                \* return value of the last loadUserConfig, per page

vars == <<store, nsidMigrationEnabled, currentAgent, currentSession, siteOwnerDid,
          currentConfig, run, calls, outcome, snap, runs, loaded>>

(***************************************************************************)
(* Bounds                                                                  *)
(***************************************************************************)
MaxRuns == 2            \* migration runs started per page
MaxLegacySections == 1  \* sections embedded in an initial legacy sections record
StorePageSize == 1      \* records the store returns per listRecords page

(***************************************************************************)
(* Identities, pages                                                       *)
(***************************************************************************)
DIDs == {"T", "U"}
NoDid == "none"
Tabs == {1, 2}
MainTabs == {1}

Null == [null |-> TRUE]
NoRef == <<>>

(***************************************************************************)
(* Namespace registry (config/nsid.ts)                                     *)
(***************************************************************************)
NSID_MIGRATION_VERSION == 1
CONFIG_RKEY == "self"
SPORE_COLLECTION_KEYS ==
  <<"siteConfig", "siteLayout", "siteSection", "siteProfile", "contentText", "itemSpecialSpore">>
CollectionKeys == {SPORE_COLLECTION_KEYS[i] : i \in 1..Len(SPORE_COLLECTION_KEYS)}
Namespaces == {"old", "new"}

OldCollectionOf ==
  [k \in CollectionKeys |->
     CASE k = "siteConfig" -> "garden.spores.site.config"
       [] k = "siteLayout" -> "garden.spores.site.layout"
       [] k = "siteSection" -> "garden.spores.site.section"
       [] k = "siteProfile" -> "garden.spores.site.profile"
       [] k = "contentText" -> "garden.spores.content.text"
       [] k = "itemSpecialSpore" -> "garden.spores.item.specialSpore"]

NewCollectionOf ==
  [k \in CollectionKeys |->
     CASE k = "siteConfig" -> "coop.hypha.spores.site.config"
       [] k = "siteLayout" -> "coop.hypha.spores.site.layout"
       [] k = "siteSection" -> "coop.hypha.spores.site.section"
       [] k = "siteProfile" -> "coop.hypha.spores.site.profile"
       [] k = "contentText" -> "coop.hypha.spores.content.text"
       [] k = "itemSpecialSpore" -> "coop.hypha.spores.item.specialSpore"]

getCollection(key, namespace) ==
  IF namespace = "new" THEN NewCollectionOf[key] ELSE OldCollectionOf[key]

OLD_SECTIONS_COLLECTION == "garden.spores.site.sections"
BSKY_PROFILE_COLLECTION == "app.bsky.actor.profile"

OldCollections == {getCollection(k, "old") : k \in CollectionKeys}
NewCollections == {getCollection(k, "new") : k \in CollectionKeys}
AllCollections ==
  OldCollections \cup NewCollections \cup {OLD_SECTIONS_COLLECTION, BSKY_PROFILE_COLLECTION}

isNsidMigrationEnabled == nsidMigrationEnabled
getWriteNamespace == IF isNsidMigrationEnabled THEN "new" ELSE "old"
\* the read order with the old namespace first
getReadNamespacesOldFirst == IF isNsidMigrationEnabled THEN <<"old", "new">> ELSE <<"old">>

getReadNamespaces == IF isNsidMigrationEnabled THEN <<"new", "old">> ELSE <<"old">>

\* the semantic key of a concrete collection id, "" when the id is unknown
KeyOfCollection(collection) ==
  IF \E k \in CollectionKeys : collection \in {OldCollectionOf[k], NewCollectionOf[k]}
  THEN CHOOSE k \in CollectionKeys : collection \in {OldCollectionOf[k], NewCollectionOf[k]}
  ELSE ""

\* the mapping that leaves every collection id as it is
mapCollectionToNamespaceUnchanged(collection, namespace) == collection

mapCollectionToNamespace(collection, namespace) ==
  IF KeyOfCollection(collection) = "" THEN collection
  ELSE getCollection(KeyOfCollection(collection), namespace)

\* an AT URI at://did/collection/rkey is the triple <<did, collection, rkey>>
buildAtUri(did, collection, rkey) == <<did, collection, rkey>>

rewriteAtUriNamespace(uri, namespace) ==
  IF uri = NoRef THEN NoRef
  ELSE <<uri[1], mapCollectionToNamespace(uri[2], namespace), uri[3]>>

(***************************************************************************)
(* Record values.  type is $type, ver is nsidMigrationVersion with 0 for   *)
(* an absent field (undefined >= 1 is false, as 0 >= 1), ref is the        *)
(* section's reference URI, sections the layout's list of section URIs,    *)
(* legacy the number of sections embedded in a legacy sections record.     *)
(***************************************************************************)
Val(type, title, ver, ref, sections, legacy) ==
  [type |-> type, title |-> title, ver |-> ver, ref |-> ref,
   sections |-> sections, legacy |-> legacy]

Plain(type, title) == Val(type, title, 0, NoRef, <<>>, 0)

rewriteRecordPayloadForNamespace(collection, value, namespace) ==
  [value EXCEPT
     !.type = mapCollectionToNamespace(collection, namespace),
     !.ref = rewriteAtUriNamespace(value.ref, namespace),
     !.sections = [i \in 1..Len(value.sections) |->
                     rewriteAtUriNamespace(value.sections[i], namespace)]]

(***************************************************************************)
(* The remote store                                                        *)
(***************************************************************************)
EmptyCollection == [k \in {} |-> Null]
EmptyRepo == [c \in AllCollections |-> EmptyCollection]

Has(st, did, collection, rkey) == rkey \in DOMAIN st[did][collection]

\* at-client getRecord: the record, or null when there is none
StoreGet(st, did, collection, rkey) ==
  IF Has(st, did, collection, rkey) THEN st[did][collection][rkey] ELSE Null

StorePut(st, did, collection, rkey, value) ==
  [st EXCEPT ![did][collection] =
     [k \in (DOMAIN @) \cup {rkey} |-> IF k = rkey THEN value ELSE @[k]]]

StoreDelete(st, did, collection, rkey) ==
  [st EXCEPT ![did][collection] = [k \in (DOMAIN @) \ {rkey} |-> @[k]]]

(***************************************************************************)
(* Session (oauth.ts)                                                      *)
(***************************************************************************)
isLoggedIn(t) == currentAgent[t] # NoDid
getCurrentDid(t) == currentSession[t]

\* a put that creates the record and leaves an existing one as it is
putRecordCreateOnly(st, t, collection, rkey, value, ok) ==
  IF currentAgent[t] = NoDid \/ currentSession[t] = NoDid \/ ~ok
  THEN [thrown |-> TRUE, st |-> st]
  ELSE [thrown |-> FALSE,
        st |-> IF Has(st, currentSession[t], collection, rkey) THEN st
               ELSE StorePut(st, currentSession[t], collection, rkey, value)]

\* oauth.ts putRecord: throws without agent or session, or when the request
\* fails; otherwise writes into the repo of the session's DID.
putRecord(st, t, collection, rkey, value, ok) ==
  IF currentAgent[t] = NoDid \/ currentSession[t] = NoDid \/ ~ok
  THEN [thrown |-> TRUE, st |-> st]
  ELSE [thrown |-> FALSE, st |-> StorePut(st, currentSession[t], collection, rkey, value)]

deleteRecord(st, t, collection, rkey, ok) ==
  IF currentAgent[t] = NoDid \/ currentSession[t] = NoDid \/ ~ok
  THEN [thrown |-> TRUE, st |-> st]
  ELSE [thrown |-> FALSE, st |-> StoreDelete(st, currentSession[t], collection, rkey)]

(***************************************************************************)
(* Record keys and listRecords pages                                       *)
(***************************************************************************)
MaxTids == MaxLegacySections + 4
TidNames == [i \in 1..MaxTids |-> "tid" \o ToString(i)]
RkeyOrder == <<"self", "k1", "k2", "welcome">> \o TidNames
RkeyRank(k) == CHOOSE i \in 1..Len(RkeyOrder) : RkeyOrder[i] = k
NoCursor == ""

\* rkeys of a collection after the cursor, in listing order
RkeysAfter(st, did, collection, cursor) ==
  LET ranks == {RkeyRank(k) : k \in DOMAIN st[did][collection]}
      after == IF cursor = NoCursor THEN ranks
               ELSE {i \in ranks : i > RkeyRank(cursor)}
      RECURSIVE Sorted(_)
      Sorted(S) == IF S = {} THEN <<>>
                   ELSE LET m == CHOOSE x \in S : \A y \in S : x <= y
                        IN <<RkeyOrder[m]>> \o Sorted(S \ {m})
  IN Sorted(after)

Min2(a, b) == IF a <= b THEN a ELSE b

\* The pages the store may answer to listRecords(did, collection, {limit, cursor}):
\* up to StorePageSize records after the cursor; a cursor (the last rkey
\* served) always when more records remain, and possibly when none remain.
ListPages(st, did, collection, cursor) ==
  LET rest == RkeysAfter(st, did, collection, cursor)
      n == Min2(StorePageSize, Len(rest))
      recs == [i \in 1..n |->
                 [uri |-> buildAtUri(did, collection, rest[i]),
                  value |-> st[did][collection][rest[i]]]]
  IN IF n = 0 THEN {[records |-> <<>>, cursor |-> NoCursor]}
     ELSE IF n < Len(rest) THEN {[records |-> recs, cursor |-> rest[n]]}
     ELSE {[records |-> recs, cursor |-> NoCursor], [records |-> recs, cursor |-> rest[n]]}

NoResponse == [records |-> <<>>, cursor |-> NoCursor, failed |-> TRUE]

(***************************************************************************)
(* listAllRecordsForCollection of config.ts, one loop iteration: the state *)
(* after the awaited listRecords answered resp (NoResponse: it rejected,   *)
(* which .catch(() => null) turns into null).                              *)
(***************************************************************************)
LIST_LOOP_LIMIT == 50
EmptyListing == [all |-> <<>>, cursor |-> NoCursor, loops |-> 0, seen |-> {}, done |-> FALSE]

\* the loop without its ceiling: while (true)
listAllRecordsStepNoCeiling(ls, resp) ==
  IF resp = NoResponse \/ Len(resp.records) = 0
  THEN [ls EXCEPT !.loops = @ + 1, !.done = TRUE]
  ELSE IF resp.cursor = NoCursor
  THEN [ls EXCEPT !.loops = @ + 1, !.all = @ \o resp.records, !.done = TRUE]
  ELSE [ls EXCEPT !.loops = @ + 1, !.all = @ \o resp.records, !.cursor = resp.cursor]

listAllRecordsStep(ls, resp) ==
  LET loops == ls.loops + 1 IN
  IF resp = NoResponse \/ Len(resp.records) = 0
  THEN [ls EXCEPT !.loops = loops, !.done = TRUE]
  ELSE IF resp.cursor = NoCursor
  THEN [ls EXCEPT !.loops = loops, !.all = @ \o resp.records, !.done = TRUE]
  ELSE [ls EXCEPT !.loops = loops, !.all = @ \o resp.records,
                  !.cursor = resp.cursor, !.done = ~(loops < LIST_LOOP_LIMIT)]

\* the record key taken one URI part too early
getRecordRkeyOffByOne(record) == record.uri[2]

getRecordRkey(record) == record.uri[3]

(***************************************************************************)
(* Run state of a page.  pc "idle": nothing in flight; "load": initConfig  *)
(* is about to call loadUserConfig; any other pc is the awaited store call *)
(* of a migration run.                                                     *)
(***************************************************************************)
NoCalls == [get |-> 0, list |-> 0, put |-> 0, del |-> 0, failed |-> 0]

IdleRun ==
  [pc |-> "idle", did |-> NoDid, caller |-> "none", idx |-> 0, rec |-> Null, listing |-> EmptyListing,
   recs |-> <<>>, j |-> 0, newRkeys |-> {}, writes |-> 0, deletes |-> 0, latestNew |-> Null,
   plan |-> <<>>, served |-> <<>>, result |-> FALSE]

isSingletonKey(key) == key \in {"siteConfig", "siteLayout", "siteProfile"}

\* top of the for loop over SPORE_COLLECTION_KEYS at index i: the next awaited call
NextKey(r, i) ==
  IF i > Len(SPORE_COLLECTION_KEYS)
  THEN [r EXCEPT !.pc = "getLatestNew", !.idx = i, !.rec = Null, !.recs = <<>>, !.j = 0,
                 !.listing = EmptyListing]
  ELSE IF isSingletonKey(SPORE_COLLECTION_KEYS[i])
  THEN [r EXCEPT !.pc = "getOld", !.idx = i, !.rec = Null, !.recs = <<>>, !.j = 0,
                 !.listing = EmptyListing]
  ELSE [r EXCEPT !.pc = "listOld", !.idx = i, !.rec = Null, !.recs = <<>>, !.j = 0,
                 !.listing = EmptyListing]

\* the run returns (or its catch block ran): initConfig goes on to loadUserConfig
Returned(r) ==
  IF r.caller = "initConfig" THEN [IdleRun EXCEPT !.pc = "load", !.did = r.did]
  ELSE [IdleRun EXCEPT !.did = r.did]

\* the error of a failed store call thrown on to the caller: the promise
\* rejects, and initConfig with it
rethrowMigrationError(r) == [IdleRun EXCEPT !.did = r.did, !.caller = "rejected"]

\* catch (error) { console.error(...) }: the promise resolves
catchMigrationError(r) == Returned(r)

\* st: the store after the step that ends the run
EndRun(t, oc, st) ==
  /\ run' = [run EXCEPT ![t] = IF oc = "aborted" THEN catchMigrationError(run[t])
                                ELSE Returned(run[t])]
  /\ outcome' = [outcome EXCEPT ![t] =
                   [last |-> oc,
                    first |-> IF oc \in {"completed", "fast"} /\ ~@.first.set
                              THEN [set |-> TRUE, run |-> runs[t], st |-> st]
                              ELSE @.first]]

\* the store call of this step is counted, and counted as failed when it throws
Count(t, kind, thrown) ==
  calls' = [calls EXCEPT ![t][kind] = @ + 1,
                         ![t].failed = IF thrown THEN @ + 1 ELSE @]

(***************************************************************************)
(* initConfig up to its first await, with the synchronous prefix of        *)
(* migrateOwnerNsidRecords (flag and authorization checks).                *)
(* id: the DID of the URL, or NoDid for no identifier; resolved: FALSE     *)
(* when the URL held a handle that resolveHandle failed to resolve.        *)
(***************************************************************************)
DefaultConfig == [title |-> "spores.garden", sections |-> <<>>, preview |-> FALSE]

\* the authorization check without the comparison of the DIDs
migrateAuthorizedAnyLogin(t, did) == isLoggedIn(t)

migrateAuthorized(t, did) == isLoggedIn(t) /\ getCurrentDid(t) = did

\* migrateOwnerNsidRecords(did) up to its first await: the flag check and the
\* authorization check; caller is "initConfig" or "direct"
BeginRun(t, did, caller) ==
  /\ calls' = [calls EXCEPT ![t] = NoCalls]
  /\ snap' = [snap EXCEPT ![t] = store]
  /\ IF ~isNsidMigrationEnabled
     THEN /\ run' = [run EXCEPT ![t] = Returned([IdleRun EXCEPT !.did = did, !.caller = caller])]
          /\ outcome' = [outcome EXCEPT ![t].last = "disabled"]
     ELSE IF ~migrateAuthorized(t, did)
     THEN /\ run' = [run EXCEPT ![t] = Returned([IdleRun EXCEPT !.did = did, !.caller = caller])]
          /\ outcome' = [outcome EXCEPT ![t].last = "skipped"]
     ELSE /\ run' = [run EXCEPT ![t] = [IdleRun EXCEPT !.pc = "markerCheck", !.did = did,
                                                        !.caller = caller]]
          /\ outcome' = [outcome EXCEPT ![t].last = "running"]

\* the same, with the run counted
BeginMigration(t, did, caller) ==
  /\ runs' = [runs EXCEPT ![t] = @ + 1]
  /\ BeginRun(t, did, caller)

initConfig(t, id, resolved) ==
  /\ run[t].pc = "idle"
  /\ runs[t] < MaxRuns
  /\ LET owner == IF id # NoDid THEN (IF resolved THEN id ELSE NoDid) ELSE getCurrentDid(t) IN
     /\ siteOwnerDid' = [siteOwnerDid EXCEPT ![t] = owner]
     /\ IF owner = NoDid
        THEN /\ currentConfig' = [currentConfig EXCEPT ![t] = DefaultConfig]
             /\ UNCHANGED <<run, calls, outcome, snap, runs>>
        ELSE /\ BeginMigration(t, owner, "initConfig")
             /\ UNCHANGED currentConfig
  /\ UNCHANGED <<store, nsidMigrationEnabled, currentAgent, currentSession, loaded>>

\* initConfig for the garden of id once MaxRuns visits were counted: the
\* count stays, the visit is the same
initConfigAgain(t, id) ==
  /\ run[t].pc = "idle"
  /\ runs[t] = MaxRuns
  /\ siteOwnerDid' = [siteOwnerDid EXCEPT ![t] = id]
  /\ BeginRun(t, id, "initConfig")
  /\ UNCHANGED <<store, nsidMigrationEnabled, currentAgent, currentSession, currentConfig,
                 runs, loaded>>

\* migrateOwnerNsidRecords(did) called on its own
migrateOwnerNsidRecords(t, did) ==
  /\ run[t].pc = "idle"
  /\ runs[t] < MaxRuns
  /\ BeginMigration(t, did, "direct")
  /\ UNCHANGED <<store, nsidMigrationEnabled, currentAgent, currentSession, siteOwnerDid,
                 currentConfig, loaded>>

(***************************************************************************)
(* migrateOwnerNsidRecords of config.ts, one action per awaited store call *)
(* ok = FALSE: the call rejects.                                           *)
(***************************************************************************)
\* the marker check left out: no fast path
markerIsCurrentNever(config) == FALSE

\* the marker check that takes any new-namespace config for a finished migration
markerIsCurrentAnyConfig(config) == config # Null

\* the marker check with > in place of >=
markerIsCurrentStrict(config) == config # Null /\ config.ver > NSID_MIGRATION_VERSION

\* existingNewConfig?.value?.nsidMigrationVersion >= NSID_MIGRATION_VERSION
markerIsCurrent(config) == config # Null /\ config.ver >= NSID_MIGRATION_VERSION

MarkerCheck(t, ok) ==
  /\ run[t].pc = "markerCheck"
  /\ Count(t, "get", ~ok)
  /\ LET existingNewConfig == StoreGet(store, run[t].did, getCollection("siteConfig", "new"), CONFIG_RKEY) IN
     IF ~ok THEN EndRun(t, "aborted", store)
     ELSE IF markerIsCurrent(existingNewConfig)
     THEN EndRun(t, "fast", store)
     ELSE /\ run' = [run EXCEPT ![t] = NextKey(run[t], 1)]
          /\ UNCHANGED outcome
  /\ UNCHANGED <<store, nsidMigrationEnabled, currentAgent, currentSession, siteOwnerDid,
                 currentConfig, snap, runs, loaded>>

GetOldSingleton(t, ok) ==
  /\ run[t].pc = "getOld"
  /\ Count(t, "get", ~ok)
  /\ LET key == SPORE_COLLECTION_KEYS[run[t].idx]
         oldRecord == StoreGet(store, run[t].did, getCollection(key, "old"), CONFIG_RKEY) IN
     IF ~ok THEN EndRun(t, "aborted", store)
     ELSE /\ UNCHANGED outcome
          /\ IF oldRecord = Null
             THEN run' = [run EXCEPT ![t] = NextKey(run[t], run[t].idx + 1)]
             ELSE run' = [run EXCEPT ![t] = [run[t] EXCEPT !.pc = "putSingleton", !.rec = oldRecord]]
  /\ UNCHANGED <<store, nsidMigrationEnabled, currentAgent, currentSession, siteOwnerDid,
                 currentConfig, snap, runs, loaded>>

PutSingleton(t, ok) ==
  /\ run[t].pc = "putSingleton"
    /\ LET key == SPORE_COLLECTION_KEYS[run[t].idx]
         oldCollection == getCollection(key, "old")
         newCollection == getCollection(key, "new")
         rewritten == rewriteRecordPayloadForNamespace(oldCollection, run[t].rec, "new")
         res == putRecord(store, t, newCollection, CONFIG_RKEY,
                          [rewritten EXCEPT !.type = newCollection], ok) IN
     /\ store' = res.st
     /\ Count(t, "put", res.thrown)
     /\ IF res.thrown THEN EndRun(t, "aborted", res.st)
        ELSE /\ run' = [run EXCEPT ![t] = NextKey(run[t], run[t].idx + 1)]
             /\ UNCHANGED outcome
  /\ UNCHANGED <<nsidMigrationEnabled, currentAgent, currentSession, siteOwnerDid,
                 currentConfig, snap, runs, loaded>>

\* one iteration of listAllRecordsForCollection over the old collection
ListOld(t, ok) ==
  /\ run[t].pc = "listOld"
  /\ Count(t, "list", ~ok)
  /\ LET key == SPORE_COLLECTION_KEYS[run[t].idx]
         oldCollection == getCollection(key, "old") IN
     \E page \in ListPages(store, run[t].did, oldCollection, run[t].listing.cursor) :
       LET ls == listAllRecordsStep(run[t].listing, IF ok THEN page ELSE NoResponse) IN
       IF ~ls.done
       THEN run' = [run EXCEPT ![t] = [run[t] EXCEPT !.listing = ls]]
       ELSE IF Len(ls.all) = 0
       THEN run' = [run EXCEPT ![t] = NextKey(run[t], run[t].idx + 1)]
       ELSE run' = [run EXCEPT ![t] = [run[t] EXCEPT !.pc = "putList", !.recs = ls.all, !.j = 1,
                                                      !.listing = EmptyListing]]
  /\ UNCHANGED <<store, nsidMigrationEnabled, currentAgent, currentSession, siteOwnerDid,
                 currentConfig, outcome, snap, runs, loaded>>

PutList(t, ok) ==
  /\ run[t].pc = "putList"
    /\ LET key == SPORE_COLLECTION_KEYS[run[t].idx]
         oldCollection == getCollection(key, "old")
         newCollection == getCollection(key, "new")
         record == run[t].recs[run[t].j]
         rkey == getRecordRkey(record)
         rewritten == rewriteRecordPayloadForNamespace(oldCollection, record.value, "new")
         res == putRecord(store, t, newCollection, rkey,
                          [rewritten EXCEPT !.type = newCollection], ok) IN
     /\ store' = res.st
     /\ Count(t, "put", res.thrown)
     /\ IF res.thrown THEN EndRun(t, "aborted", res.st)
        ELSE /\ UNCHANGED outcome
             /\ IF run[t].j < Len(run[t].recs)
                THEN run' = [run EXCEPT ![t] = [run[t] EXCEPT !.j = @ + 1]]
                ELSE run' = [run EXCEPT ![t] = NextKey(run[t], run[t].idx + 1)]
  /\ UNCHANGED <<nsidMigrationEnabled, currentAgent, currentSession, siteOwnerDid,
                 currentConfig, snap, runs, loaded>>

GetLatestNewConfig(t, ok) ==
  /\ run[t].pc = "getLatestNew"
  /\ Count(t, "get", ~ok)
  /\ IF ~ok THEN EndRun(t, "aborted", store)
     ELSE /\ run' = [run EXCEPT ![t] = [run[t] EXCEPT !.pc = "getOldConfig",
                 !.latestNew = StoreGet(store, run[t].did, getCollection("siteConfig", "new"), CONFIG_RKEY)]]
          /\ UNCHANGED outcome
  /\ UNCHANGED <<store, nsidMigrationEnabled, currentAgent, currentSession, siteOwnerDid,
                 currentConfig, snap, runs, loaded>>

MinimalConfig == Plain(getCollection("siteConfig", "new"), "My Garden")

GetOldConfig(t, ok) ==
  /\ run[t].pc = "getOldConfig"
  /\ Count(t, "get", ~ok)
  /\ IF ~ok THEN EndRun(t, "aborted", store)
     ELSE LET oldConfig == StoreGet(store, run[t].did, getCollection("siteConfig", "old"), CONFIG_RKEY)
              baseConfig == IF run[t].latestNew # Null THEN run[t].latestNew
                            ELSE IF oldConfig # Null THEN oldConfig
                            ELSE MinimalConfig IN
          /\ run' = [run EXCEPT ![t] = [run[t] EXCEPT !.pc = "putMarker", !.rec = baseConfig,
                                                       !.latestNew = Null]]
          /\ UNCHANGED outcome
  /\ UNCHANGED <<store, nsidMigrationEnabled, currentAgent, currentSession, siteOwnerDid,
                 currentConfig, snap, runs, loaded>>

\* the final write without the nsidMigrationVersion field
markedConfigNoVersion(baseConfig, collection) == [baseConfig EXCEPT !.type = collection]

\* { ...baseConfig, $type: newConfigCollection, nsidMigrationVersion: NSID_MIGRATION_VERSION }
markedConfig(baseConfig, collection) ==
  [baseConfig EXCEPT !.type = collection, !.ver = NSID_MIGRATION_VERSION]

PutMarker(t, ok) ==
  /\ run[t].pc = "putMarker"
    /\ LET newConfigCollection == getCollection("siteConfig", "new")
         res == putRecord(store, t, newConfigCollection, CONFIG_RKEY,
                          markedConfig(run[t].rec, newConfigCollection), ok) IN
     /\ store' = res.st
     /\ Count(t, "put", res.thrown)
     /\ IF res.thrown THEN EndRun(t, "aborted", res.st) ELSE EndRun(t, "completed", res.st)
  /\ UNCHANGED <<nsidMigrationEnabled, currentAgent, currentSession, siteOwnerDid,
                 currentConfig, snap, runs, loaded>>

\* the page navigates away while a migration call is pending: the run is abandoned
Abandon(t) ==
  /\ run[t].pc \notin {"idle", "load"}
  /\ run' = [run EXCEPT ![t] = [IdleRun EXCEPT !.did = run[t].did]]
  /\ outcome' = [outcome EXCEPT ![t].last = "abandoned"]
  /\ UNCHANGED <<store, nsidMigrationEnabled, currentAgent, currentSession, siteOwnerDid,
                 currentConfig, calls, snap, runs, loaded>>

(***************************************************************************)
(* listAllRecordsForCollection of config/nsid-migration.ts, one loop       *)
(* iteration: the state after the awaited listRecords answered resp.       *)
(***************************************************************************)
MAX_LIST_PAGES == 200

\* the loop comparing the new cursor with the previous one only
listAllRecordsStepImplPreviousOnly(ls, resp) ==
  LET pages == ls.loops + 1
      all == ls.all \o resp.records
      nextCursor == resp.cursor
  IN IF nextCursor = NoCursor \/ nextCursor = ls.cursor
     THEN [ls EXCEPT !.loops = pages, !.all = all, !.done = TRUE]
     ELSE [ls EXCEPT !.loops = pages, !.all = all, !.seen = @ \cup {nextCursor},
                     !.cursor = nextCursor, !.done = (pages >= MAX_LIST_PAGES)]

listAllRecordsStepImpl(ls, resp) ==
  LET pages == ls.loops + 1
      all == ls.all \o resp.records
      nextCursor == resp.cursor
  IN IF nextCursor = NoCursor
     THEN [ls EXCEPT !.loops = pages, !.all = all, !.done = TRUE]
     ELSE IF nextCursor = ls.cursor \/ nextCursor \in ls.seen
     THEN [ls EXCEPT !.loops = pages, !.all = all, !.done = TRUE]
     ELSE [ls EXCEPT !.loops = pages, !.all = all, !.seen = @ \cup {nextCursor},
                     !.cursor = nextCursor, !.done = (pages >= MAX_LIST_PAGES)]

(***************************************************************************)
(* migrateOwnerNsidRecordsImpl of config/nsid-migration.ts, one action per *)
(* awaited store call                                                      *)
(***************************************************************************)
implAuthorized(t, did) == isLoggedIn(t) /\ getCurrentDid(t) = did

\* top of the for loop over SPORE_COLLECTION_KEYS at index i, or the end of the run
ImplNextKey(t, r, i, st) ==
  IF i > Len(SPORE_COLLECTION_KEYS)
  THEN EndRun(t, IF r.writes = 0 /\ r.deletes = 0 THEN "nothing" ELSE "completed", st)
  ELSE /\ run' = [run EXCEPT ![t] =
                    [r EXCEPT !.pc = IF isSingletonKey(SPORE_COLLECTION_KEYS[i])
                                     THEN "implGetOld" ELSE "implListOld",
                              !.idx = i, !.rec = Null, !.recs = <<>>, !.j = 0,
                              !.newRkeys = {}, !.listing = EmptyListing]]
       /\ UNCHANGED outcome

migrateOwnerNsidRecordsImpl(t, did) ==
  /\ run[t].pc = "idle"
  /\ runs[t] < MaxRuns
  /\ runs' = [runs EXCEPT ![t] = @ + 1]
  /\ calls' = [calls EXCEPT ![t] = NoCalls]
  /\ snap' = [snap EXCEPT ![t] = store]
  /\ IF ~implAuthorized(t, did)
     THEN /\ run' = [run EXCEPT ![t] = [IdleRun EXCEPT !.did = did]]
          /\ outcome' = [outcome EXCEPT ![t].last = "skipped"]
     ELSE /\ run' = [run EXCEPT ![t] =
                       [IdleRun EXCEPT !.pc = "implGetOld", !.did = did, !.caller = "direct",
                                       !.idx = 1]]
          /\ outcome' = [outcome EXCEPT ![t].last = "running"]
  /\ UNCHANGED <<store, nsidMigrationEnabled, currentAgent, currentSession, siteOwnerDid,
                 currentConfig, loaded>>

ImplGetOld(t, ok) ==
  /\ run[t].pc = "implGetOld"
  /\ Count(t, "get", ~ok)
  /\ LET key == SPORE_COLLECTION_KEYS[run[t].idx]
         oldRecord == StoreGet(store, run[t].did, getCollection(key, "old"), CONFIG_RKEY) IN
     IF ~ok THEN EndRun(t, "aborted", store)
     ELSE IF oldRecord = Null THEN ImplNextKey(t, run[t], run[t].idx + 1, store)
     ELSE /\ run' = [run EXCEPT ![t] = [run[t] EXCEPT !.pc = "implGetNew", !.rec = oldRecord]]
          /\ UNCHANGED outcome
  /\ UNCHANGED <<store, nsidMigrationEnabled, currentAgent, currentSession, siteOwnerDid,
                 currentConfig, snap, runs, loaded>>

ImplGetNew(t, ok) ==
  /\ run[t].pc = "implGetNew"
  /\ Count(t, "get", ~ok)
  /\ LET key == SPORE_COLLECTION_KEYS[run[t].idx]
         existingNewRecord == StoreGet(store, run[t].did, getCollection(key, "new"), CONFIG_RKEY) IN
     IF ~ok THEN EndRun(t, "aborted", store)
     ELSE /\ run' = [run EXCEPT ![t] =
                       [run[t] EXCEPT !.pc = IF existingNewRecord = Null
                                             THEN "implPutSingleton" ELSE "implDeleteSingleton"]]
          /\ UNCHANGED outcome
  /\ UNCHANGED <<store, nsidMigrationEnabled, currentAgent, currentSession, siteOwnerDid,
                 currentConfig, snap, runs, loaded>>

ImplPutSingleton(t, ok) ==
  /\ run[t].pc = "implPutSingleton"
  /\ LET key == SPORE_COLLECTION_KEYS[run[t].idx]
         oldCollection == getCollection(key, "old")
         newCollection == getCollection(key, "new")
         rewritten == rewriteRecordPayloadForNamespace(oldCollection, run[t].rec, "new")
         res == putRecord(store, t, newCollection, CONFIG_RKEY,
                          [rewritten EXCEPT !.type = newCollection], ok) IN
     /\ store' = res.st
     /\ Count(t, "put", res.thrown)
     /\ IF res.thrown THEN EndRun(t, "aborted", res.st)
        ELSE /\ run' = [run EXCEPT ![t] = [run[t] EXCEPT !.pc = "implDeleteSingleton",
                                                         !.writes = @ + 1]]
             /\ UNCHANGED outcome
  /\ UNCHANGED <<nsidMigrationEnabled, currentAgent, currentSession, siteOwnerDid,
                 currentConfig, snap, runs, loaded>>

ImplDeleteSingleton(t, ok) ==
  /\ run[t].pc = "implDeleteSingleton"
  /\ LET key == SPORE_COLLECTION_KEYS[run[t].idx]
         res == deleteRecord(store, t, getCollection(key, "old"), CONFIG_RKEY, ok) IN
     /\ store' = res.st
     /\ Count(t, "del", res.thrown)
     /\ IF res.thrown THEN EndRun(t, "aborted", res.st)
        ELSE ImplNextKey(t, [run[t] EXCEPT !.deletes = @ + 1], run[t].idx + 1, res.st)
  /\ UNCHANGED <<nsidMigrationEnabled, currentAgent, currentSession, siteOwnerDid,
                 currentConfig, snap, runs, loaded>>

\* a loop body that deletes the old record without looking at newRkeys
ImplAtRecordDeleteOnly(r, j) ==
  [r EXCEPT !.j = j, !.pc = "implDeleteList"]

\* position j of the loop over oldRecords: the next awaited call
ImplAtRecord(r, j) ==
  [r EXCEPT !.j = j,
            !.pc = IF getRecordRkey(r.recs[j]) \in r.newRkeys
                   THEN "implDeleteList" ELSE "implPutList"]

ImplListOld(t, ok) ==
  /\ run[t].pc = "implListOld"
  /\ Count(t, "list", ~ok)
  /\ LET key == SPORE_COLLECTION_KEYS[run[t].idx]
         oldCollection == getCollection(key, "old") IN
     IF ~ok THEN EndRun(t, "aborted", store)
     ELSE \E page \in ListPages(store, run[t].did, oldCollection, run[t].listing.cursor) :
       LET ls == listAllRecordsStepImpl(run[t].listing, page) IN
       IF ~ls.done
       THEN run' = [run EXCEPT ![t] = [run[t] EXCEPT !.listing = ls]] /\ UNCHANGED outcome
       ELSE IF Len(ls.all) = 0
       THEN ImplNextKey(t, run[t], run[t].idx + 1, store)
       ELSE /\ run' = [run EXCEPT ![t] = [run[t] EXCEPT !.pc = "implListNew", !.recs = ls.all,
                                                         !.listing = EmptyListing]]
            /\ UNCHANGED outcome
  /\ UNCHANGED <<store, nsidMigrationEnabled, currentAgent, currentSession, siteOwnerDid,
                 currentConfig, snap, runs, loaded>>

ImplListNew(t, ok) ==
  /\ run[t].pc = "implListNew"
  /\ Count(t, "list", ~ok)
  /\ LET key == SPORE_COLLECTION_KEYS[run[t].idx]
         newCollection == getCollection(key, "new") IN
     IF ~ok THEN EndRun(t, "aborted", store)
     ELSE \E page \in ListPages(store, run[t].did, newCollection, run[t].listing.cursor) :
       LET ls == listAllRecordsStepImpl(run[t].listing, page) IN
       /\ UNCHANGED outcome
       /\ IF ~ls.done
          THEN run' = [run EXCEPT ![t] = [run[t] EXCEPT !.listing = ls]]
          ELSE run' = [run EXCEPT ![t] =
                        ImplAtRecord([run[t] EXCEPT
                                        !.newRkeys = {getRecordRkey(ls.all[i]) : i \in 1..Len(ls.all)},
                                        !.listing = EmptyListing], 1)]
  /\ UNCHANGED <<store, nsidMigrationEnabled, currentAgent, currentSession, siteOwnerDid,
                 currentConfig, snap, runs, loaded>>

ImplPutList(t, ok) ==
  /\ run[t].pc = "implPutList"
  /\ LET key == SPORE_COLLECTION_KEYS[run[t].idx]
         oldCollection == getCollection(key, "old")
         newCollection == getCollection(key, "new")
         record == run[t].recs[run[t].j]
         rkey == getRecordRkey(record)
         rewritten == rewriteRecordPayloadForNamespace(oldCollection, record.value, "new")
         res == putRecord(store, t, newCollection, rkey,
                          [rewritten EXCEPT !.type = newCollection], ok) IN
     /\ store' = res.st
     /\ Count(t, "put", res.thrown)
     /\ IF res.thrown THEN EndRun(t, "aborted", res.st)
        ELSE /\ run' = [run EXCEPT ![t] = [run[t] EXCEPT !.pc = "implDeleteList",
                                                         !.writes = @ + 1,
                                                         !.newRkeys = @ \cup {rkey}]]
             /\ UNCHANGED outcome
  /\ UNCHANGED <<nsidMigrationEnabled, currentAgent, currentSession, siteOwnerDid,
                 currentConfig, snap, runs, loaded>>

ImplDeleteList(t, ok) ==
  /\ run[t].pc = "implDeleteList"
  /\ LET key == SPORE_COLLECTION_KEYS[run[t].idx]
         rkey == getRecordRkey(run[t].recs[run[t].j])
         res == deleteRecord(store, t, getCollection(key, "old"), rkey, ok)
         r == [run[t] EXCEPT !.deletes = @ + 1] IN
     /\ store' = res.st
     /\ Count(t, "del", res.thrown)
     /\ IF res.thrown THEN EndRun(t, "aborted", res.st)
        ELSE IF run[t].j < Len(run[t].recs)
        THEN run' = [run EXCEPT ![t] = ImplAtRecord(r, run[t].j + 1)] /\ UNCHANGED outcome
        ELSE ImplNextKey(t, r, run[t].idx + 1, res.st)
  /\ UNCHANGED <<nsidMigrationEnabled, currentAgent, currentSession, siteOwnerDid,
                 currentConfig, snap, runs, loaded>>

(***************************************************************************)
(* createRecord (oauth.ts): the store picks a fresh record key             *)
(***************************************************************************)
FreeTids(st, did, collection) ==
  {i \in 1..MaxTids : TidNames[i] \notin DOMAIN st[did][collection]}

FreshTid(st, did, collection) ==
  TidNames[CHOOSE i \in FreeTids(st, did, collection) :
             \A j \in FreeTids(st, did, collection) : i <= j]

\* create values[1..n] one after the other in the repo of did
RECURSIVE CreateAll(_, _, _, _, _)
CreateAll(st, did, collection, values, n) ==
  IF n = 0 THEN [st |-> st, uris |-> <<>>]
  ELSE LET prev == CreateAll(st, did, collection, values, n - 1)
           rkey == FreshTid(prev.st, did, collection)
       IN [st |-> StorePut(prev.st, did, collection, rkey, values[n]),
           uris |-> Append(prev.uris, buildAtUri(did, collection, rkey))]

(***************************************************************************)
(* migrateSections (config.ts): the legacy single sections record is       *)
(* turned into section records and a layout.  fail = 0: no store call      *)
(* fails; fail = k: its k-th store call throws, which the catch swallows.  *)
(***************************************************************************)
LegacySectionValue(collection) == Plain(collection, "legacy")

migrateSections(st, t, did, fail) ==
  IF ~isLoggedIn(t) \/ getCurrentDid(t) # did THEN st
  ELSE
    LET sectionCollection == getCollection("siteSection", getWriteNamespace)
        layoutCollection == getCollection("siteLayout", getWriteNamespace)
        oldSectionsRecord == StoreGet(st, did, OLD_SECTIONS_COLLECTION, CONFIG_RKEY)
    IN IF fail = 1 \/ oldSectionsRecord = Null THEN st
       ELSE
         LET n == oldSectionsRecord.legacy
             values == [i \in 1..n |-> LegacySectionValue(sectionCollection)]
             made == IF fail \in 2..(n + 1) THEN fail - 2 ELSE n
             created == CreateAll(st, did, sectionCollection, values, made)
             withLayout == StorePut(created.st, did, layoutCollection, CONFIG_RKEY,
                                    Val(layoutCollection, "", 0, NoRef, created.uris, 0))
         IN IF fail \in 2..(n + 1) THEN created.st
            ELSE IF fail = n + 2 THEN created.st
            ELSE IF fail = n + 3 THEN withLayout
            ELSE StoreDelete(withLayout, did, OLD_SECTIONS_COLLECTION, CONFIG_RKEY)

\* the store has record keys left for the createRecord calls of migrateSections
LegacyFits(st, t, did) ==
  LET oldSectionsRecord == StoreGet(st, did, OLD_SECTIONS_COLLECTION, CONFIG_RKEY) IN
  (isLoggedIn(t) /\ getCurrentDid(t) = did /\ oldSectionsRecord # Null)
    => oldSectionsRecord.legacy <=
         Cardinality(FreeTids(st, did, getCollection("siteSection", getWriteNamespace)))

(***************************************************************************)
(* loadUserConfig (config.ts)                                              *)
(***************************************************************************)
NoActive == [namespace |-> "none", config |-> Null, layout |-> Null]

\* the scan of getReadNamespaces(): the first namespace holding a config or a layout
RECURSIVE ScanNamespaces(_, _, _, _)
ScanNamespaces(st, did, namespaces, i) ==
  IF i > Len(namespaces) THEN NoActive
  ELSE LET candidateConfig == StoreGet(st, did, getCollection("siteConfig", namespaces[i]), CONFIG_RKEY)
           candidateLayout == StoreGet(st, did, getCollection("siteLayout", namespaces[i]), CONFIG_RKEY)
       IN IF candidateConfig # Null \/ candidateLayout # Null
          THEN [namespace |-> namespaces[i], config |-> candidateConfig, layout |-> candidateLayout]
          ELSE ScanNamespaces(st, did, namespaces, i + 1)

normalizeSectionForNamespace(value, namespace, did) ==
  [value EXCEPT !.type = mapCollectionToNamespace(value.type, namespace),
                !.ref = rewriteAtUriNamespace(value.ref, namespace)]

generateInitialSections(did, namespace) ==
  LET sectionCollection == getCollection("siteSection", namespace) IN
  << [sectionRkey |-> "", value |-> Val(sectionCollection, "profile", 0,
        buildAtUri(did, getCollection("siteProfile", namespace), "self"), <<>>, 0)],
     [sectionRkey |-> "", value |-> Plain(sectionCollection, "Welcome")],
     [sectionRkey |-> "", value |-> Plain(sectionCollection, "Collected Flowers")],
     [sectionRkey |-> "", value |-> Plain(sectionCollection, "Share on Bluesky")] >>

\* the section objects built from the layout's section URIs, in layout order
RECURSIVE LoadSections(_, _, _, _)
LoadSections(st, did, uris, i) ==
  IF i > Len(uris) THEN <<>>
  ELSE LET record == StoreGet(st, uris[i][1], uris[i][2], uris[i][3])
           rest == LoadSections(st, did, uris, i + 1)
       IN IF record = Null THEN rest
          ELSE <<[sectionRkey |-> uris[i][3],
                  value |-> normalizeSectionForNamespace(record, getWriteNamespace, did)]>> \o rest

\* the configuration loadUserConfig builds from the store, Null when it finds
\* neither config nor layout
BuildConfig(st, did) ==
  LET active == ScanNamespaces(st, did, getReadNamespaces, 1)
      title == IF active.config # Null THEN active.config.title ELSE "My Garden"
  IN IF active = NoActive THEN Null
     ELSE [title |-> title,
           sections |-> IF active.layout # Null /\ Len(active.layout.sections) > 0
                        THEN LoadSections(st, did, active.layout.sections, 1)
                        ELSE generateInitialSections(did, getWriteNamespace),
           preview |-> FALSE]

PreviewConfig == [title |-> "spores.garden", sections |-> <<>>, preview |-> TRUE]

\* loadUserConfig(run[t].did) as called by initConfig, then initConfig's tail.
\* legacyFail: the failing call of migrateSections (0: none); readsOk: FALSE
\* when a getRecord of the scan throws; putOk: FALSE when the put of the
\* default config is rejected.
loadUserConfig(t, legacyFail, readsOk, putOk) ==
  /\ run[t].pc = "load"
  /\ LegacyFits(store, t, run[t].did)
  /\ LET did == run[t].did
         st1 == migrateSections(store, t, did, legacyFail)
         active == ScanNamespaces(st1, did, getReadNamespaces, 1)
         defaultConfigToSave == Plain(getCollection("siteConfig", active.namespace), "My Garden")
         res == IF readsOk /\ active.config = Null /\ active.layout # Null
                THEN putRecord(st1, t, getCollection("siteConfig", active.namespace), CONFIG_RKEY,
                               defaultConfigToSave, putOk)
                ELSE [thrown |-> FALSE, st |-> st1]
     IN /\ store' = res.st
        /\ IF ~readsOk \/ res.thrown
           THEN /\ loaded' = [loaded EXCEPT ![t] = Null]
                /\ currentConfig' = [currentConfig EXCEPT ![t] = PreviewConfig]
                /\ UNCHANGED siteOwnerDid
           ELSE IF active = NoActive
           THEN /\ loaded' = [loaded EXCEPT ![t] = Null]
                /\ currentConfig' = [currentConfig EXCEPT ![t] = PreviewConfig]
                /\ UNCHANGED siteOwnerDid
           ELSE /\ loaded' = [loaded EXCEPT ![t] = BuildConfig(st1, did)]
                /\ currentConfig' = [currentConfig EXCEPT ![t] = BuildConfig(st1, did)]
                /\ siteOwnerDid' = [siteOwnerDid EXCEPT ![t] = did]
  /\ run' = [run EXCEPT ![t] = [IdleRun EXCEPT !.did = run[t].did]]
  /\ UNCHANGED <<nsidMigrationEnabled, currentAgent, currentSession, calls, outcome, snap, runs>>

(***************************************************************************)
(* Session changes (oauth.ts)                                              *)
(***************************************************************************)
logout(t) ==
  /\ currentAgent[t] # NoDid
  /\ currentAgent' = [currentAgent EXCEPT ![t] = NoDid]
  /\ currentSession' = [currentSession EXCEPT ![t] = NoDid]
  /\ UNCHANGED <<store, nsidMigrationEnabled, siteOwnerDid, currentConfig, run, calls,
                 outcome, snap, runs, loaded>>

\* a finished authorization sets the session and the agent of the page
handleOAuthCallback(t, did) ==
  /\ currentSession[t] # did
  /\ currentSession' = [currentSession EXCEPT ![t] = did]
  /\ currentAgent' = [currentAgent EXCEPT ![t] = did]
  /\ UNCHANGED <<store, nsidMigrationEnabled, siteOwnerDid, currentConfig, run, calls,
                 outcome, snap, runs, loaded>>

(***************************************************************************)
(* updateConfig and saveConfig (config.ts)                                 *)
(***************************************************************************)
EditedTitles == {"Edited"}
SporeReceivers == {"T"}
MaxSaveFaults == 1

updateConfig(t, title) ==
  /\ run[t].pc = "idle"
  /\ currentConfig[t] # Null
  /\ currentConfig[t].title # title
  /\ currentConfig' = [currentConfig EXCEPT ![t] = [@ EXCEPT !.title = title]]
  /\ UNCHANGED <<store, nsidMigrationEnabled, currentAgent, currentSession, siteOwnerDid,
                 run, calls, outcome, snap, runs, loaded>>

\* the marker put on every saved config, whatever the flag
savedMarkerAlways == NSID_MIGRATION_VERSION

\* if (isNsidMigrationEnabled()) configToSave.nsidMigrationVersion = NSID_MIGRATION_VERSION
\* (0: the field is absent)
savedMarker == IF isNsidMigrationEnabled THEN NSID_MIGRATION_VERSION ELSE 0

SectionWrite(i) == "section" \o ToString(i)

buildSectionRecordForSave(section, collection) == [section.value EXCEPT !.type = collection]

\* the section writes of saveConfig for sections[1..n], those in failed rejected
RECURSIVE SaveSections(_, _, _, _, _, _)
SaveSections(st, did, namespace, sections, n, failed) ==
  IF n = 0 THEN [st |-> st, sections |-> <<>>]
  ELSE LET prev == SaveSections(st, did, namespace, sections, n - 1, failed)
           collection == getCollection("siteSection", namespace)
           section == [sections[n] EXCEPT
                         !.value = normalizeSectionForNamespace(@, namespace, did)]
           sectionRecord == buildSectionRecordForSave(section, collection)
           rkey == IF section.sectionRkey # "" THEN section.sectionRkey
                   ELSE FreshTid(prev.st, did, collection)
       IN IF SectionWrite(n) \in failed
          THEN [st |-> prev.st, sections |-> Append(prev.sections, section)]
          ELSE [st |-> StorePut(prev.st, did, collection, rkey, sectionRecord),
                sections |-> Append(prev.sections, [section EXCEPT !.sectionRkey = rkey])]

NewSectionCount(sections) == Cardinality({i \in 1..Len(sections) : sections[i].sectionRkey = ""})

\* saveConfig: readOk FALSE when its getRecord calls throw; failed: the writes
\* the store rejects
saveConfig(t, isInitialOnboarding, readOk, failed) ==
  /\ run[t].pc = "idle"
  /\ isLoggedIn(t)
  /\ getCurrentDid(t) # NoDid
  /\ ~(getCurrentDid(t) # siteOwnerDid[t] /\ siteOwnerDid[t] # NoDid)
  /\ siteOwnerDid' = [siteOwnerDid EXCEPT ![t] = getCurrentDid(t)]
  /\ IF currentConfig[t] = Null
     THEN UNCHANGED <<store, currentConfig>>
     ELSE
       LET did == getCurrentDid(t)
           writeNamespace == getWriteNamespace
           configCollection == getCollection("siteConfig", writeNamespace)
           sectionCollection == getCollection("siteSection", writeNamespace)
           layoutCollection == getCollection("siteLayout", writeNamespace)
           sporeCollection == getCollection("itemSpecialSpore", writeNamespace)
           profileCollection == getCollection("siteProfile", writeNamespace)
           isFirstTimeConfig ==
             isInitialOnboarding \/ ~readOk \/ StoreGet(store, did, configCollection, CONFIG_RKEY) = Null
           configToSave == Val(configCollection, currentConfig[t].title,
                               savedMarker, NoRef, <<>>, 0)
           sections == currentConfig[t].sections
           sectionWrites == {SectionWrite(i) : i \in 1..Len(sections)}
           st1 == IF "config" \in failed THEN store
                  ELSE StorePut(store, did, configCollection, CONFIG_RKEY, configToSave)
           saved == SaveSections(st1, did, writeNamespace, sections, Len(sections), failed)
           sectionUris == [i \in 1..Len(sections) |->
                             buildAtUri(did, sectionCollection, saved.sections[i].sectionRkey)]
           st2 == IF "layout" \in failed THEN saved.st
                  ELSE StorePut(saved.st, did, layoutCollection, CONFIG_RKEY,
                                Val(layoutCollection, "", 0, NoRef, sectionUris, 0))
           st3 == IF isFirstTimeConfig /\ did \in SporeReceivers /\ "spore" \notin failed
                  THEN StorePut(st2, did, sporeCollection, CONFIG_RKEY,
                                Val(sporeCollection, "spore", 0, buildAtUri(did, "", ""), <<>>, 0))
                  ELSE st2
           bskyProfileRecord == StoreGet(store, did, BSKY_PROFILE_COLLECTION, CONFIG_RKEY)
           st4 == IF isFirstTimeConfig /\ readOk /\ bskyProfileRecord # Null /\ "profile" \notin failed
                  THEN StorePut(st3, did, profileCollection, CONFIG_RKEY,
                                Plain(profileCollection, bskyProfileRecord.title))
                  ELSE st3
       IN /\ failed \subseteq ({"config", "layout", "spore", "profile"} \cup sectionWrites)
          /\ NewSectionCount(sections) <= Cardinality(FreeTids(store, did, sectionCollection))
          /\ IF failed \cap sectionWrites # {}
             THEN /\ store' = saved.st
                  /\ UNCHANGED currentConfig
             ELSE /\ store' = st4
                  /\ currentConfig' = [currentConfig EXCEPT ![t] = [@ EXCEPT !.sections = saved.sections]]
  /\ UNCHANGED <<nsidMigrationEnabled, currentAgent, currentSession, run, calls, outcome,
                 snap, runs, loaded>>

\* the writes saveConfig would issue now, and the sets of them that may fail
SaveWrites(t) ==
  IF currentConfig[t] = Null THEN {}
  ELSE {"config", "layout", "spore", "profile"}
         \cup {SectionWrite(i) : i \in 1..Len(currentConfig[t].sections)}

SaveFaults(t) == {F \in SUBSET SaveWrites(t) : Cardinality(F) <= MaxSaveFaults}

(***************************************************************************)
(* Initial states: the flag, nobody logged in, the repo of U empty and the *)
(* repo of T one of: empty; an old config only; a full old garden (config, *)
(* layout, two sections, their content, profile); layout and sections      *)
(* without config; an old config with a legacy sections record.  Each with *)
(* or without a new-namespace config that carries no marker.               *)
(***************************************************************************)
GardenShapes == {"empty", "configOnly", "garden", "layoutOnly", "legacy"}

OldSectionValue ==
  Val(getCollection("siteSection", "old"), "content", 0,
      buildAtUri("T", getCollection("contentText", "old"), "welcome"), <<>>, 0)

One(rkey, value) == [k \in {rkey} |-> value]

InitRepoT(shape, hasNewConfig) ==
  [c \in AllCollections |->
     CASE c = getCollection("siteConfig", "old") ->
            IF shape \in {"configOnly", "garden", "legacy"}
            THEN One(CONFIG_RKEY, Plain(c, "A")) ELSE EmptyCollection
       [] c = getCollection("siteLayout", "old") ->
            IF shape \in {"garden", "layoutOnly"}
            THEN One(CONFIG_RKEY,
                     Val(c, "", 0, NoRef,
                         <<buildAtUri("T", getCollection("siteSection", "old"), "k1"),
                           buildAtUri("T", getCollection("siteSection", "old"), "k2")>>, 0))
            ELSE EmptyCollection
       [] c = getCollection("siteSection", "old") ->
            IF shape \in {"garden", "layoutOnly"}
            THEN [k \in {"k1", "k2"} |-> OldSectionValue] ELSE EmptyCollection
       [] c = getCollection("contentText", "old") ->
            IF shape \in {"garden", "layoutOnly"}
            THEN One("welcome", Plain(c, "hello")) ELSE EmptyCollection
       [] c = getCollection("siteProfile", "old") ->
            IF shape = "garden" THEN One(CONFIG_RKEY, Plain(c, "me")) ELSE EmptyCollection
       [] c = getCollection("siteConfig", "new") ->
            IF hasNewConfig THEN One(CONFIG_RKEY, Plain(c, "B")) ELSE EmptyCollection
       [] c = OLD_SECTIONS_COLLECTION ->
            IF shape = "legacy"
            THEN One(CONFIG_RKEY, Val(c, "", 0, NoRef, <<>>, MaxLegacySections))
            ELSE EmptyCollection
       [] c = BSKY_PROFILE_COLLECTION -> One(CONFIG_RKEY, Plain(c, "bsky"))
       [] OTHER -> EmptyCollection]

InitStores(shapes) ==
  {[d \in DIDs |-> IF d = "T" THEN InitRepoT(shape, hasNewConfig) ELSE EmptyRepo] :
     shape \in shapes, hasNewConfig \in BOOLEAN}

InitPages ==
  /\ currentAgent = [t \in Tabs |-> NoDid]
  /\ currentSession = [t \in Tabs |-> NoDid]
  /\ siteOwnerDid = [t \in Tabs |-> NoDid]
  /\ currentConfig = [t \in Tabs |-> Null]
  /\ run = [t \in Tabs |-> IdleRun]
  /\ calls = [t \in Tabs |-> NoCalls]
  /\ outcome = [t \in Tabs |-> [last |-> "none", first |-> [set |-> FALSE, run |-> 0, st |-> store]]]
  /\ snap = [t \in Tabs |-> store]
  /\ runs = [t \in Tabs |-> 0]
  /\ loaded = [t \in Tabs |-> Null]

Init ==
  /\ nsidMigrationEnabled \in BOOLEAN
  /\ store \in InitStores(GardenShapes)
  /\ InitPages

(***************************************************************************)
(* The application on one page: visits of T's garden (initConfig: the      *)
(* migration, then the load), logout at any time, login on page load.      *)
(***************************************************************************)
MigrationStep(t) ==
  \/ \E ok \in BOOLEAN : MarkerCheck(t, ok)
  \/ \E ok \in BOOLEAN : GetOldSingleton(t, ok)
  \/ \E ok \in BOOLEAN : PutSingleton(t, ok)
  \/ \E ok \in BOOLEAN : ListOld(t, ok)
  \/ \E ok \in BOOLEAN : PutList(t, ok)
  \/ \E ok \in BOOLEAN : GetLatestNewConfig(t, ok)
  \/ \E ok \in BOOLEAN : GetOldConfig(t, ok)
  \/ \E ok \in BOOLEAN : PutMarker(t, ok)

\* the choices of loadUserConfig's failure inputs that differ in effect
LegacyFailChoices(t) ==
  LET oldSectionsRecord == StoreGet(store, run[t].did, OLD_SECTIONS_COLLECTION, CONFIG_RKEY) IN
  IF isLoggedIn(t) /\ getCurrentDid(t) = run[t].did /\ oldSectionsRecord # Null
  THEN 0..(oldSectionsRecord.legacy + 3) ELSE {0}

LoadStep(t) ==
  \E legacyFail \in LegacyFailChoices(t), readsOk \in BOOLEAN, putOk \in BOOLEAN :
    loadUserConfig(t, legacyFail, readsOk, putOk)

VisitStep(t) ==
  \E resolved \in BOOLEAN : initConfig(t, "T", resolved)

LoginStep(t) ==
  \E did \in DIDs : run[t].pc = "idle" /\ handleOAuthCallback(t, did)

Next ==
  \E t \in MainTabs :
    \/ VisitStep(t)
    \/ MigrationStep(t)
    \/ Abandon(t)
    \/ LoadStep(t)
    \/ logout(t)
    \/ LoginStep(t)

Spec == Init /\ [][Next]_vars

(***************************************************************************)
(* The migration called on its own, as its tests call it: runs of          *)
(* migrateOwnerNsidRecords with failing store calls and session changes    *)
(* between runs.                                                           *)
(***************************************************************************)
DirectStep(t) == migrateOwnerNsidRecords(t, "T")

NextMigrate ==
  \E t \in MainTabs :
    \/ DirectStep(t)
    \/ MigrationStep(t)
    \/ Abandon(t)
    \/ logout(t)
    \/ LoginStep(t)

SpecMigrate == Init /\ [][NextMigrate]_vars

(***************************************************************************)
(* The dependency-injected migration of config/nsid-migration.ts called on *)
(* its own.                                                                *)
(***************************************************************************)
ImplStep(t) ==
  \/ \E ok \in BOOLEAN : ImplGetOld(t, ok)
  \/ \E ok \in BOOLEAN : ImplGetNew(t, ok)
  \/ \E ok \in BOOLEAN : ImplPutSingleton(t, ok)
  \/ \E ok \in BOOLEAN : ImplDeleteSingleton(t, ok)
  \/ \E ok \in BOOLEAN : ImplListOld(t, ok)
  \/ \E ok \in BOOLEAN : ImplListNew(t, ok)
  \/ \E ok \in BOOLEAN : ImplPutList(t, ok)
  \/ \E ok \in BOOLEAN : ImplDeleteList(t, ok)

ImplCallStep(t) == migrateOwnerNsidRecordsImpl(t, "T")

NextImpl ==
  \E t \in MainTabs :
    \/ ImplCallStep(t)
    \/ ImplStep(t)
    \/ Abandon(t)
    \/ logout(t)
    \/ LoginStep(t)

SpecImpl == Init /\ [][NextImpl]_vars


(***************************************************************************)
(* The owner, logged in, visits the own garden again and again on one      *)
(* page; every visit runs to its end.  Store calls may fail at any time.   *)
(* No garden here holds a legacy sections record.                          *)
(***************************************************************************)
OwnerVisitStep(t) == initConfig(t, "T", TRUE) \/ initConfigAgain(t, "T")

NextLive ==
  \E t \in MainTabs :
    \/ OwnerVisitStep(t)
    \/ MigrationStep(t)
    \/ LoadStep(t)

InitLive ==
  /\ nsidMigrationEnabled = TRUE
  /\ store \in InitStores({"empty", "configOnly", "garden", "layoutOnly"})
  /\ currentAgent = [t \in Tabs |-> IF t \in MainTabs THEN "T" ELSE NoDid]
  /\ currentSession = [t \in Tabs |-> IF t \in MainTabs THEN "T" ELSE NoDid]
  /\ siteOwnerDid = [t \in Tabs |-> NoDid]
  /\ currentConfig = [t \in Tabs |-> Null]
  /\ run = [t \in Tabs |-> IdleRun]
  /\ calls = [t \in Tabs |-> NoCalls]
  /\ outcome = [t \in Tabs |-> [last |-> "none", first |-> [set |-> FALSE, run |-> 0, st |-> store]]]
  /\ snap = [t \in Tabs |-> store]
  /\ runs = [t \in Tabs |-> 0]
  /\ loaded = [t \in Tabs |-> Null]

SpecLive == InitLive /\ [][NextLive]_vars /\ WF_vars(NextLive)

\* the application, and the dependency-injected migration called on its own,
\* on the page of the owner (logged in at first) over the full old garden
NextAll ==
  \E t \in MainTabs :
    \/ VisitStep(t)
    \/ MigrationStep(t)
    \/ LoadStep(t)
    \/ ImplCallStep(t)
    \/ ImplStep(t)
    \/ Abandon(t)
    \/ logout(t)

InitAll ==
  /\ InitLive
  /\ store = [d \in DIDs |-> IF d = "T" THEN InitRepoT("garden", FALSE) ELSE EmptyRepo]

SpecAll == InitAll /\ [][NextAll]_vars

\* both migrations, each called on its own
NextBoth == NextMigrate \/ NextImpl

SpecBoth == Init /\ [][NextBoth]_vars

(***************************************************************************)
(* The application with a session that is replaced while a run is in       *)
(* flight (a second authorization finishing on the page).                  *)
(***************************************************************************)
SwitchStep(t) ==
  \E did \in DIDs \ {run[t].did} : run[t].pc # "idle" /\ handleOAuthCallback(t, did)

NextSwitch ==
  \E t \in MainTabs :
    \/ DirectStep(t)
    \/ MigrationStep(t)
    \/ logout(t)
    \/ LoginStep(t)
    \/ SwitchStep(t)

InitSwitch ==
  /\ nsidMigrationEnabled = TRUE
  /\ store \in InitStores({"garden"})
  /\ InitPages

SpecSwitch == InitSwitch /\ [][NextSwitch]_vars

(***************************************************************************)
(* Two pages of the same owner, each calling migrateOwnerNsidRecords, their *)
(* store calls interleaved; every store call succeeds.                     *)
(***************************************************************************)
RaceStep(t) ==
  \/ MarkerCheck(t, TRUE)
  \/ GetOldSingleton(t, TRUE)
  \/ PutSingleton(t, TRUE)
  \/ ListOld(t, TRUE)
  \/ PutList(t, TRUE)
  \/ GetLatestNewConfig(t, TRUE)
  \/ GetOldConfig(t, TRUE)
  \/ PutMarker(t, TRUE)

OwnerLoginStep(t) == run[t].pc = "idle" /\ handleOAuthCallback(t, "T")

NextRace ==
  \E t \in Tabs :
    \/ DirectStep(t)
    \/ RaceStep(t)
    \/ OwnerLoginStep(t)

InitRace ==
  /\ nsidMigrationEnabled = TRUE
  /\ store \in InitStores({"empty", "configOnly", "garden"})
  /\ InitPages

SpecRace == InitRace /\ [][NextRace]_vars

(***************************************************************************)
(* listAllRecordsForCollection called on its own, against a store under    *)
(* test.  variant "config": the one of config.ts; "impl": the one of       *)
(* config/nsid-migration.ts.  With a plan (run.plan, a sequence of pages   *)
(* with pairwise distinct cursors and none on the last page) the store     *)
(* serves the page that follows the cursor it is sent; without one it      *)
(* answers anything: records or none, no cursor, the cursor it was sent, a *)
(* cursor served before or a fresh one.  run.served: the records of the    *)
(* responses so far.                                                       *)
(***************************************************************************)
MaxRequests == 202     \* list requests the store under test answers per call
MaxPlanPages == 3      \* pages of a planned listing
MaxPageRecords == 2    \* records on a page of a planned listing

ListerVariants == {"config", "impl"}

PlanCursor(i) == "c" \o ToString(i)

PlanRecord(i, j) ==
  [uri |-> buildAtUri("T", OldCollectionOf["siteSection"], "p" \o ToString(i) \o "r" \o ToString(j)),
   value |-> Plain(OldCollectionOf["siteSection"], "content")]

PlanPage(i, n, last) ==
  [records |-> [j \in 1..n |-> PlanRecord(i, j)],
   cursor |-> IF last THEN NoCursor ELSE PlanCursor(i)]

PagePlans ==
  UNION {{[i \in 1..len |-> PlanPage(i, sizes[i], i = len)] :
            sizes \in [1..len -> 0..MaxPageRecords]} : len \in 1..MaxPlanPages}

RECURSIVE PlanRecords(_, _)
PlanRecords(plan, n) ==
  IF n = 0 THEN <<>> ELSE PlanRecords(plan, n - 1) \o plan[n].records

\* the page of the plan that follows the cursor
PlannedPage(plan, cursor) ==
  IF cursor = NoCursor THEN plan[1]
  ELSE plan[(CHOOSE i \in 1..Len(plan) : plan[i].cursor = cursor) + 1]

AnyRecord == PlanRecord(0, 0)

AnyPages(ls) ==
  {[records |-> rs, cursor |-> c] :
     rs \in {<<>>, <<AnyRecord>>},
     c \in {NoCursor, PlanCursor(1), PlanCursor(ls.loops + 1)} \cup {ls.cursor}}

\* the store answers with the cursor of the request or one it gave before
RepeatedCursor(ls, resp) ==
  resp.cursor # NoCursor /\ (resp.cursor = ls.cursor \/ resp.cursor \in ls.seen)

callListAllRecords(t, variant, plan) ==
  /\ run[t].pc = "idle"
  /\ run[t].caller = "none"
  /\ run' = [run EXCEPT ![t] = [IdleRun EXCEPT !.pc = "listPage", !.did = "T",
                                                 !.caller = variant, !.plan = plan]]
  /\ calls' = [calls EXCEPT ![t] = NoCalls]
  /\ UNCHANGED <<store, nsidMigrationEnabled, currentAgent, currentSession, siteOwnerDid,
                 currentConfig, outcome, snap, runs, loaded>>

\* one awaited listRecords of the loop: the store answers resp, or rejects
ListPage(t, resp, ok) ==
  /\ run[t].pc = "listPage"
  /\ run[t].listing.loops < MaxRequests
  /\ Count(t, "list", ~ok)
  /\ IF run[t].caller = "impl" /\ ~ok
     THEN run' = [run EXCEPT ![t] = [run[t] EXCEPT !.pc = "listThrew"]]
     ELSE LET ls == IF run[t].caller = "impl"
                    THEN listAllRecordsStepImpl(run[t].listing, resp)
                    ELSE listAllRecordsStep(run[t].listing, IF ok THEN resp ELSE NoResponse)
          IN run' = [run EXCEPT ![t] =
                       [run[t] EXCEPT !.listing = ls,
                                      !.served = IF ok THEN @ \o resp.records ELSE @,
                                      !.result = ok /\ RepeatedCursor(run[t].listing, resp),
                                      !.pc = IF ls.done THEN "listReturned" ELSE "listPage"]]
  /\ UNCHANGED <<store, nsidMigrationEnabled, currentAgent, currentSession, siteOwnerDid,
                 currentConfig, outcome, snap, runs, loaded>>

ListAnyPage(t) ==
  /\ run[t].plan = <<>>
  /\ \E resp \in AnyPages(run[t].listing), ok \in BOOLEAN : ListPage(t, resp, ok)

ListPlannedPage(t) ==
  /\ run[t].plan # <<>>
  /\ ListPage(t, PlannedPage(run[t].plan, run[t].listing.cursor), TRUE)

ListerCallStep(t) ==
  \E variant \in ListerVariants, plan \in PagePlans \cup {<<>>} :
    callListAllRecords(t, variant, plan)

NextList ==
  \E t \in MainTabs :
    \/ ListerCallStep(t)
    \/ ListAnyPage(t)
    \/ ListPlannedPage(t)

InitList ==
  /\ nsidMigrationEnabled = TRUE
  /\ store = [d \in DIDs |-> EmptyRepo]
  /\ InitPages

SpecList == InitList /\ [][NextList]_vars

(***************************************************************************)
(* The owner editing and saving the garden.                                *)
(***************************************************************************)
EditStep(t) == \E title \in EditedTitles : updateConfig(t, title)

SaveStep(t) ==
  \E isInitialOnboarding \in BOOLEAN, readOk \in BOOLEAN, failed \in SaveFaults(t) :
    saveConfig(t, isInitialOnboarding, readOk, failed)

(***************************************************************************)
(* The rollout flag disabled: visits of T's garden, direct calls of the    *)
(* migration, edits and saves (every write of a save accepted), login and  *)
(* logout of either user, over gardens some of which hold a                *)
(* new-namespace config from before the flag was turned off.               *)
(***************************************************************************)
\* saveConfig with every write accepted by the store
SaveAcceptedStep(t) ==
  \E isInitialOnboarding \in BOOLEAN, readOk \in BOOLEAN :
    saveConfig(t, isInitialOnboarding, readOk, {})

NextOff ==
  \E t \in MainTabs :
    \/ initConfig(t, "T", TRUE)
    \/ DirectStep(t)
    \/ LoadStep(t)
    \/ EditStep(t)
    \/ SaveAcceptedStep(t)
    \/ logout(t)
    \/ LoginStep(t)

InitOff ==
  /\ nsidMigrationEnabled = FALSE
  /\ store \in InitStores(GardenShapes)
  /\ InitPages

SpecOff == InitOff /\ [][NextOff]_vars

(***************************************************************************)
(* isOwner (config.ts), called by the page between two other operations:   *)
(* the call computes its answer from the session and the site owner DID    *)
(* and returns it to the caller.                                           *)
(***************************************************************************)
\* the comparison alone, without the checks for a missing login or DID
isOwnerCompareOnly(t) == getCurrentDid(t) = siteOwnerDid[t]

isOwner(t) ==
  IF ~isLoggedIn(t) THEN FALSE
  ELSE LET currentDid == getCurrentDid(t)
           ownerDid == siteOwnerDid[t]
       IN IF currentDid = NoDid \/ ownerDid = NoDid THEN FALSE
          ELSE currentDid = ownerDid

isOwnerCall(t) ==
  /\ run[t].pc = "idle"
  /\ run' = [run EXCEPT ![t] = [IdleRun EXCEPT !.pc = "isOwner", !.did = run[t].did,
                                                !.result = isOwner(t)]]
  /\ UNCHANGED <<store, nsidMigrationEnabled, currentAgent, currentSession, siteOwnerDid,
                 currentConfig, calls, outcome, snap, runs, loaded>>

\* the caller has used the answer
isOwnerReturn(t) ==
  /\ run[t].pc = "isOwner"
  /\ run' = [run EXCEPT ![t] = [IdleRun EXCEPT !.did = run[t].did]]
  /\ UNCHANGED <<store, nsidMigrationEnabled, currentAgent, currentSession, siteOwnerDid,
                 currentConfig, calls, outcome, snap, runs, loaded>>

\* a visit of T's garden, of an unresolvable handle, or of the home page
AnyVisitStep(t) ==
  \E id \in {NoDid, "T"}, resolved \in BOOLEAN : initConfig(t, id, resolved)

NextOwner ==
  \E t \in MainTabs :
    \/ AnyVisitStep(t)
    \/ LoadStep(t)
    \/ SaveAcceptedStep(t)
    \/ isOwnerCall(t)
    \/ isOwnerReturn(t)
    \/ logout(t)
    \/ LoginStep(t)

InitOwner ==
  /\ nsidMigrationEnabled = FALSE
  /\ store \in InitStores({"empty", "garden"})
  /\ InitPages

SpecOwner == InitOwner /\ [][NextOwner]_vars

(***************************************************************************)
(* The owner, logged in, with the garden open on two pages.  On the first  *)
(* the migration runs once (called on its own); the second visits the      *)
(* garden once (initConfig: the migration, then the load), edits the title *)
(* and saves.                                                              *)
(* The steps of the two pages interleave at store-call granularity; no     *)
(* store call of the migration fails and every write of a save is          *)
(* accepted.                                                               *)
(***************************************************************************)
EditorTabs == Tabs \ MainTabs

\* the one call of the migration on the first page
MigrateOnceStep(t) == runs[t] = 0 /\ DirectStep(t)

\* the one visit of the garden on the second page
VisitOnceStep(t) == runs[t] = 0 /\ initConfig(t, "T", TRUE)

NextEditing ==
  \/ \E t \in MainTabs :
       \/ MigrateOnceStep(t)
       \/ RaceStep(t)
  \/ \E t \in EditorTabs :
       \/ VisitOnceStep(t)
       \/ RaceStep(t)
       \/ LoadStep(t)
       \/ EditStep(t)
       \/ SaveAcceptedStep(t)

InitEditing ==
  /\ nsidMigrationEnabled = TRUE
  /\ store \in InitStores({"garden"})
  /\ currentAgent = [t \in Tabs |-> "T"]
  /\ currentSession = [t \in Tabs |-> "T"]
  /\ siteOwnerDid = [t \in Tabs |-> NoDid]
  /\ currentConfig = [t \in Tabs |-> Null]
  /\ run = [t \in Tabs |-> IdleRun]
  /\ calls = [t \in Tabs |-> NoCalls]
  /\ outcome = [t \in Tabs |-> [last |-> "none", first |-> [set |-> FALSE, run |-> 0, st |-> store]]]
  /\ snap = [t \in Tabs |-> store]
  /\ runs = [t \in Tabs |-> 0]
  /\ loaded = [t \in Tabs |-> Null]

SpecEditing == InitEditing /\ [][NextEditing]_vars

(***************************************************************************)
(* Properties                                                              *)
(***************************************************************************)
\* the nsidMigrationVersion of did's new-namespace config, 0 when there is none
Marker(st, did) ==
  LET config == StoreGet(st, did, getCollection("siteConfig", "new"), CONFIG_RKEY)
  IN IF config = Null THEN 0 ELSE config.ver

NewNamespace(st, did) == [c \in NewCollections |-> st[did][c]]

Finished(t) == run[t].pc \in {"idle", "load"} /\ runs[t] > 0

\* C1: a run of either migration started while the session is not logged in
\* as the target tenant returns at once: no store call is issued and the
\* store is left as it was.
C1_UnauthorizedRunDoesNothing ==
  [][\A t \in Tabs :
       (runs'[t] = runs[t] + 1
          /\ ~(currentAgent[t] # NoDid /\ currentSession[t] = run'[t].did))
       => /\ store' = store
          /\ calls'[t] = NoCalls
          /\ run'[t].pc \in {"idle", "load"}]_vars

C1_Witness ==
  \E t \in Tabs :
    /\ outcome[t].last = "skipped"
    /\ run[t].did = "T"
    /\ currentSession[t] = "U"
    /\ calls[t] = NoCalls
    /\ store = snap[t]

\* C2 (as claimed): every old-namespace record present when a migration run
\* started is present with the same value during and after the run.
C2_OldRecordsKept ==
  \A t \in Tabs :
    runs[t] > 0 =>
      \A d \in DIDs, c \in OldCollections :
        \A k \in DOMAIN snap[t][d][c] :
          k \in DOMAIN store[d][c] /\ store[d][c][k] = snap[t][d][c][k]

\* C3: after the first successful run of migrateOwnerNsidRecords, every later
\* successful run leaves the new-namespace records and the marker as the first
\* run left them and issues no putRecord.
C3_RunsIdempotent ==
  \A t \in Tabs :
    (outcome[t].first.set /\ run[t].pc = "idle" /\ outcome[t].last \in {"completed", "fast"})
    => /\ NewNamespace(store, run[t].did) = NewNamespace(outcome[t].first.st, run[t].did)
       /\ Marker(store, run[t].did) = Marker(outcome[t].first.st, run[t].did)
       /\ runs[t] > outcome[t].first.run => calls[t].put = 0

C3_Witness ==
  \E t \in Tabs :
    /\ outcome[t].first.set
    /\ outcome[t].first.run = 1
    /\ runs[t] = 2
    /\ run[t].pc = "idle"
    /\ outcome[t].last = "fast"
    /\ calls[t].put = 0
    /\ Has(store, "T", getCollection("siteSection", "new"), "k2")
    /\ Marker(store, "T") = NSID_MIGRATION_VERSION

\* C4: a run that starts with the marker at the current version ends right
\* after its first getRecord, having issued no putRecord and no listRecords.
C4_FastPath ==
  [][\A t \in Tabs :
       (run[t].pc = "markerCheck" /\ run'[t].pc # "markerCheck"
          /\ Marker(snap[t], run[t].did) >= NSID_MIGRATION_VERSION)
       => /\ run'[t].pc \in {"idle", "load"}
          /\ store' = store
          /\ calls'[t].put = 0
          /\ calls'[t].list = 0
          /\ calls'[t].get <= 1]_vars

C4_Witness ==
  \E t \in Tabs :
    /\ outcome[t].last = "fast"
    /\ run[t].pc = "idle"
    /\ Marker(snap[t], run[t].did) >= NSID_MIGRATION_VERSION
    /\ calls[t] = [NoCalls EXCEPT !.get = 1]

\* C5 (as claimed): a run in which a store call failed ends with the marker
\* at the value it had when the run started.
C5_FailedRunKeepsMarker ==
  \A t \in Tabs :
    (Finished(t) /\ calls[t].failed > 0)
    => Marker(store, run[t].did) = Marker(snap[t], run[t].did)


NoGardenRecords(st, did) ==
  \A c \in OldCollections \cup NewCollections : DOMAIN st[did][c] = {}

\* C6 (as claimed): for a tenant without old-namespace and new-namespace
\* records an authorized run issues no write, and the load that follows
\* returns null.
C6_NothingToMigrate ==
  \A t \in Tabs :
    (Finished(t) /\ nsidMigrationEnabled /\ NoGardenRecords(snap[t], run[t].did)
       /\ outcome[t].last \in {"completed", "nothing", "fast"})
    => /\ calls[t].put = 0
       /\ run[t].pc = "idle" => loaded[t] = Null

\* C7 (as claimed): when the new-namespace config carries the current marker,
\* every old-namespace record of a known collection key has a new-namespace
\* record at the same record key.
C7_MarkerMeansCopied ==
  \A d \in DIDs :
    Marker(store, d) >= NSID_MIGRATION_VERSION
    => \A key \in CollectionKeys :
         \A rkey \in DOMAIN store[d][getCollection(key, "old")] :
           rkey \in DOMAIN store[d][getCollection(key, "new")]

\* C8 (as claimed): after a run that ended before its marker write, the load
\* builds the configuration and sections it built before the run started.
C8_UnfinishedRunInvisible ==
  \A t \in Tabs :
    (\/ run[t].pc = "load" /\ outcome[t].last = "aborted"
     \/ run[t].pc = "idle" /\ outcome[t].last = "abandoned")
    => BuildConfig(store, run[t].did) = BuildConfig(snap[t], run[t].did)

\* C9 (as claimed, the case of a viewer logged in as another tenant):
\* loadUserConfig leaves the viewer's own repo as it was.
C9_LoadLeavesViewerRepo ==
  [][\A t \in Tabs :
       (run[t].pc = "load" /\ run'[t].pc = "idle"
          /\ currentSession[t] \in DIDs \ {run[t].did})
       => store'[currentSession[t]] = store[currentSession[t]]]_vars

\* C10 (as claimed): a write of a migration run for a tenant changes no repo
\* but that tenant's.
C10_WritesLandInTenantRepo ==
  [][\A t \in Tabs :
       (run[t].pc \notin {"idle", "load"} /\ calls'[t].put = calls[t].put + 1)
       => \A d \in DIDs \ {run[t].did} : store'[d] = store[d]]_vars

\* C11: across sequential runs of migrateOwnerNsidRecords (completed or
\* aborted) the nsidMigrationVersion of a tenant's new-namespace config never
\* decreases: once it has held V the field stays present with a value >= V.
C11_MarkerMonotone ==
  [][\A d \in DIDs : Marker(store', d) >= Marker(store, d)]_vars

\* a run started with the marker set and aborted, the marker still set
C11_Witness ==
  \E t \in Tabs :
    /\ runs[t] = 2
    /\ Marker(snap[t], run[t].did) >= NSID_MIGRATION_VERSION
    /\ outcome[t].last = "aborted"
    /\ Marker(store, run[t].did) >= NSID_MIGRATION_VERSION

C13_ListerTerminates ==
  \A t \in Tabs :
    LET ceiling == IF run[t].caller = "impl" THEN 200 ELSE 50 IN
    /\ run[t].pc = "listPage" => run[t].listing.loops < ceiling
    /\ run[t].pc = "listReturned"
       => /\ run[t].listing.loops <= ceiling
          /\ run[t].listing.all = run[t].served
    /\ run[t].pc = "listThrew" => calls[t].failed > 0

\* the lister of config.ts returned at its ceiling against a store that served
\* a cursor with every page
C13_Witness ==
  \E t \in Tabs :
    /\ run[t].pc = "listReturned" /\ run[t].caller = "config" /\ run[t].plan = <<>>
    /\ run[t].listing.loops = 50
    /\ Len(run[t].listing.all) = 50
    /\ run[t].listing.cursor # NoCursor

\* C14 (as claimed): when the store serves a collection as a finite sequence of
\* pages with distinct cursors and none on the last page, fewer pages than the
\* ceiling, listAllRecordsForCollection returns the records of all pages in
\* order, also when an intermediate page carries a cursor and no record.
C14_ListerReturnsAllPages ==
  \A t \in Tabs :
    (run[t].pc = "listReturned" /\ run[t].plan # <<>>)
    => run[t].listing.all = PlanRecords(run[t].plan, Len(run[t].plan))

\* the new-namespace records a single run of migrateOwnerNsidRecords without a
\* failing call leaves when started on st: st's own when the marker is
\* current; otherwise every old record copied over st's new-namespace records
\* and the config written with the marker
SingleRunResult(st, did) ==
  LET Copy(key) ==
        LET old == st[did][OldCollectionOf[key]]
            new == st[did][NewCollectionOf[key]]
            keys == IF key \in {"siteConfig", "siteLayout", "siteProfile"}
                    THEN DOMAIN old \cap {CONFIG_RKEY} ELSE DOMAIN old
        IN [k \in DOMAIN new \cup keys |->
              IF k \in keys
              THEN [rewriteRecordPayloadForNamespace(OldCollectionOf[key], old[k], "new")
                      EXCEPT !.type = NewCollectionOf[key]]
              ELSE new[k]]
      copied == [c \in NewCollections |-> Copy(KeyOfCollection(c))]
      configCollection == NewCollectionOf["siteConfig"]
      base == IF CONFIG_RKEY \in DOMAIN copied[configCollection]
              THEN copied[configCollection][CONFIG_RKEY]
              ELSE Plain(configCollection, "My Garden")
      marked == [base EXCEPT !.type = configCollection, !.ver = NSID_MIGRATION_VERSION]
  IN IF Marker(st, did) >= NSID_MIGRATION_VERSION THEN NewNamespace(st, did)
     ELSE [c \in NewCollections |->
             IF c = configCollection
             THEN [k \in DOMAIN copied[c] \cup {CONFIG_RKEY} |->
                     IF k = CONFIG_RKEY THEN marked ELSE copied[c][k]]
             ELSE copied[c]]

\* C15: two runs of migrateOwnerNsidRecords for one tenant, one on each page,
\* interleaved at store-call granularity: once both have completed, the
\* new-namespace records and the marker are those a single run leaves.
C15_RacingRunsConverge ==
  (\A t \in Tabs : /\ run[t].pc = "idle" /\ runs[t] = 1 /\ run[t].did = "T"
                   /\ outcome[t].last \in {"completed", "fast"})
  => \A t \in Tabs : NewNamespace(store, "T") = SingleRunResult(snap[t], "T")

\* both runs passed the marker check before either wrote the marker, and both
\* completed
C15_Witness ==
  /\ \A t \in Tabs : /\ run[t].pc = "idle" /\ runs[t] = 1 /\ outcome[t].last = "completed"
                     /\ Marker(snap[t], "T") = 0
                     /\ calls[t].put >= 3
  /\ snap[1] # snap[2]
  /\ Marker(store, "T") = NSID_MIGRATION_VERSION

\* C16: migrateOwnerNsidRecords and migrateOwnerNsidRecordsImpl never reject:
\* whatever store call fails, the run returns to its caller, and initConfig
\* goes on to loadUserConfig.
C16_MigrationNeverRejects ==
  [][\A t \in Tabs :
       (/\ run[t].pc \notin {"idle", "load"}
        /\ run'[t].pc \in {"idle", "load"}
        /\ outcome'[t].last # "abandoned")
       => /\ run'[t].caller # "rejected"
          /\ run[t].caller = "initConfig" => run'[t].pc = "load"]_vars

\* a run started by initConfig had a store call fail, and initConfig is about
\* to call loadUserConfig
C16_Witness ==
  \E t \in Tabs :
    /\ run[t].pc = "load"
    /\ outcome[t].last = "aborted"
    /\ calls[t].failed > 0

\* C17: the write of nsidMigrationVersion is the last store write of its run
\* and comes after every copy write returned successfully: only the step at
\* the marker write raises the marker, that step ends the run, and a copy
\* write that throws ends the run with the marker as it was.  A later
\* authorized run that finds the marker below NSID_MIGRATION_VERSION starts
\* at the first collection key and goes through the keys one by one.
KeyLoopPcs == {"getOld", "putSingleton", "listOld", "putList"}

C17_MarkerWrittenLast ==
  [][/\ \A d \in DIDs :
          Marker(store', d) > Marker(store, d)
          => \E t \in Tabs :
               /\ run[t].did = d
               /\ run[t].pc = "putMarker"
               /\ run'[t].pc \in {"idle", "load"}
               /\ outcome'[t].last = "completed"
     /\ \A t \in Tabs :
       LET did == run[t].did IN
       /\ (/\ run[t].pc \in KeyLoopPcs \cup {"putMarker"}
           /\ calls'[t].put = calls[t].put + 1
           /\ calls'[t].failed = calls[t].failed + 1)
          => /\ run'[t].pc \in {"idle", "load"}
             /\ outcome'[t].last = "aborted"
             /\ Marker(store', did) = Marker(store, did)
       /\ (/\ run[t].pc = "markerCheck"
           /\ calls'[t].get = calls[t].get + 1
           /\ calls'[t].failed = calls[t].failed
           /\ Marker(store, did) < NSID_MIGRATION_VERSION)
          => /\ run'[t].pc \in KeyLoopPcs
             /\ run'[t].idx = 1
       /\ (run[t].pc \in KeyLoopPcs /\ run'[t].pc \in KeyLoopPcs \cup {"getLatestNew"})
          => /\ run'[t].idx \in {run[t].idx, run[t].idx + 1}
             /\ run'[t].pc = "getLatestNew" => run[t].idx = Len(SPORE_COLLECTION_KEYS)]_vars

\* a second run that started from the copies an earlier, unfinished run left
\* behind, found no current marker, copied again and wrote the marker
C17_Witness ==
  \E t \in Tabs :
    /\ runs[t] = 2
    /\ run[t].pc = "idle"
    /\ outcome[t].last = "completed"
    /\ Marker(snap[t], "T") < NSID_MIGRATION_VERSION
    /\ StoreGet(snap[t], "T", getCollection("siteSection", "new"), "k1") # Null
    /\ calls[t].put >= 5
    /\ Marker(store, "T") = NSID_MIGRATION_VERSION

\* C18: when the logged-in owner keeps visiting and from some point on no
\* store call of a run fails, the marker is eventually, and from then on
\* always, at least NSID_MIGRATION_VERSION; and a run that started with the
\* marker in place performs no write.
NoStoreCallFails == \A t \in Tabs : calls'[t].failed <= calls[t].failed

C19_LoadUsesFirstNamespace ==
  [][\A t \in Tabs :
       (/\ run[t].pc = "load"
        /\ run'[t].pc = "idle"
        /\ StoreGet(store, run[t].did, OLD_SECTIONS_COLLECTION, CONFIG_RKEY) = Null)
       => LET active == ScanNamespaces(store, run[t].did, getReadNamespaces, 1) IN
          /\ loaded'[t] = Null <=> active = NoActive
          /\ (loaded'[t] # Null /\ active.config # Null)
             => loaded'[t].title = active.config.title]_vars

\* C20: getWriteNamespace() is 'new' when the migration flag is enabled and
\* 'old' otherwise; getReadNamespaces() is ['new', 'old'] when enabled and
\* ['old'] otherwise; so the write namespace is the first read namespace.
C20_WriteNamespaceReadFirst ==
  /\ getWriteNamespace = (IF nsidMigrationEnabled THEN "new" ELSE "old")
  /\ getReadNamespaces = (IF nsidMigrationEnabled THEN <<"new", "old">> ELSE <<"old">>)
  /\ getWriteNamespace = getReadNamespaces[1]

\* with the flag enabled, a load read the garden from the old namespace, the
\* second one read, while the write namespace is the new one
C20_Witness ==
  \E t \in Tabs :
    /\ nsidMigrationEnabled
    /\ run[t].pc = "idle"
    /\ loaded[t] # Null
    /\ run[t].did \in DIDs
    /\ ScanNamespaces(store, run[t].did, <<"new", "old">>, 1).namespace = "old"
    /\ getWriteNamespace = "new"

\* C21: with the rollout flag disabled a call of migrateOwnerNsidRecords
\* issues no store call whatever the session, no step of the application
\* (loadUserConfig and saveConfig among them) changes a new-namespace
\* collection or writes a record carrying nsidMigrationVersion, and what
\* loadUserConfig returns does not depend on the new-namespace collections.
WithoutNewNamespace(st) ==
  [d \in DIDs |-> [c \in AllCollections |->
     IF c \in NewCollections THEN EmptyCollection ELSE st[d][c]]]

C21_FlagDisabledTouchesNothingNew ==
  [][~nsidMigrationEnabled =>
       /\ \A t \in Tabs : run'[t].pc \in {"idle", "load"} /\ calls'[t] = NoCalls
       /\ \A d \in DIDs : NewNamespace(store', d) = NewNamespace(store, d)
       /\ \A d \in DIDs, c \in AllCollections : \A k \in DOMAIN store'[d][c] :
            store'[d][c][k].ver > 0 => (k \in DOMAIN store[d][c] /\ store[d][c][k] = store'[d][c][k])
       /\ \A t \in Tabs :
            (run[t].pc = "load" /\ run'[t].pc = "idle" /\ loaded'[t] # Null)
            => loaded'[t] = BuildConfig(WithoutNewNamespace(store'), run[t].did)]_vars

\* flag disabled: the owner visited (the migration returned at once), edited
\* and saved; the save landed in the old namespace and the new-namespace
\* config from before is as it was
C21_Witness ==
  \E t \in MainTabs :
    /\ ~nsidMigrationEnabled
    /\ outcome[t].last = "disabled" /\ runs[t] > 0
    /\ loaded[t] # Null
    /\ StoreGet(store, "T", getCollection("siteConfig", "old"), CONFIG_RKEY) # Null
    /\ StoreGet(store, "T", getCollection("siteConfig", "old"), CONFIG_RKEY).title = "Edited"
    /\ StoreGet(store, "T", getCollection("siteConfig", "new"), CONFIG_RKEY) # Null
    /\ StoreGet(store, "T", getCollection("siteConfig", "new"), CONFIG_RKEY).title = "B"

\* C22: rewriting a reference at://D/C/K whose C is the old-namespace id of a
\* known collection key to namespace 'new' gives at://D/C'/K with C' the new
\* id of that key, D and K unchanged; and so every section record the
\* migration wrote refers to the new collection of the record its old
\* original refers to, in the same repository under the same record key.
AllRecordKeys == {RkeyOrder[i] : i \in 1..Len(RkeyOrder)}

C22_ReferenceRewritten ==
  /\ \A d \in DIDs, key \in CollectionKeys, k \in AllRecordKeys :
       rewriteAtUriNamespace(buildAtUri(d, OldCollectionOf[key], k), "new")
         = <<d, NewCollectionOf[key], k>>
  /\ \A k \in DOMAIN store["T"][NewCollectionOf["siteSection"]] :
       LET new == store["T"][NewCollectionOf["siteSection"]][k]
           old == StoreGet(store, "T", OldCollectionOf["siteSection"], k)
       IN (old # Null /\ old.ref # NoRef)
          => \E key \in CollectionKeys :
               /\ old.ref[2] = OldCollectionOf[key]
               /\ new.ref = <<old.ref[1], NewCollectionOf[key], old.ref[3]>>

\* a run copied section k1, whose reference to the old text record 'welcome'
\* now names the new text collection
C22_Witness ==
  /\ StoreGet(store, "T", NewCollectionOf["siteSection"], "k1") # Null
  /\ StoreGet(store, "T", OldCollectionOf["siteSection"], "k1") # Null
  /\ StoreGet(store, "T", OldCollectionOf["siteSection"], "k1").ref
       = <<"T", OldCollectionOf["contentText"], "welcome">>
  /\ StoreGet(store, "T", NewCollectionOf["siteSection"], "k1").ref
       = <<"T", NewCollectionOf["contentText"], "welcome">>

\* C23: isOwner() answers true exactly when the session is logged in, the
\* current DID and the site owner DID are both present and the two are
\* equal, and false in every other case; the call changes nothing, the site
\* owner DID in particular.
C23_IsOwnerExact ==
  [][\A t \in Tabs :
       (run[t].pc # "isOwner" /\ run'[t].pc = "isOwner")
       => /\ run'[t].result
               = (/\ currentAgent[t] # NoDid
                  /\ currentSession[t] # NoDid
                  /\ siteOwnerDid[t] # NoDid
                  /\ currentSession[t] = siteOwnerDid[t])
          /\ siteOwnerDid' = siteOwnerDid
          /\ UNCHANGED <<store, currentAgent, currentSession, currentConfig, loaded>>]_vars

\* asked on a page without an owner while a user is logged in: the answer is
\* false and the page still has no owner
C23_Witness ==
  \E t \in MainTabs :
    /\ run[t].pc = "isOwner"
    /\ ~run[t].result
    /\ currentAgent[t] # NoDid
    /\ currentSession[t] # NoDid
    /\ siteOwnerDid[t] = NoDid

\* C24: an authorized, failure-free run of migrateOwnerNsidRecordsImpl that
\* started without a new-namespace config, over old sections served in
\* several pages, has written every section of every page to the new
\* section collection under its own key with $type the new collection id,
\* and has written the new-namespace config at 'self' with the old config's
\* title and nsidMigrationVersion = NSID_MIGRATION_VERSION.
C24_ImplCopiesPagesAndMarks ==
  \A t \in Tabs :
    LET oldSections == snap[t]["T"][OldCollectionOf["siteSection"]]
        oldConfig == StoreGet(snap[t], "T", OldCollectionOf["siteConfig"], CONFIG_RKEY)
        newConfig == StoreGet(store, "T", NewCollectionOf["siteConfig"], CONFIG_RKEY)
    IN (/\ Finished(t)
        /\ run[t].did = "T"
        /\ outcome[t].last = "completed"
        /\ calls[t].failed = 0
        /\ Cardinality(DOMAIN oldSections) > StorePageSize
        /\ oldConfig # Null
        /\ StoreGet(snap[t], "T", NewCollectionOf["siteConfig"], CONFIG_RKEY) = Null)
       => /\ \A k \in DOMAIN oldSections :
               /\ Has(store, "T", NewCollectionOf["siteSection"], k)
               /\ store["T"][NewCollectionOf["siteSection"]][k].type = NewCollectionOf["siteSection"]
          /\ newConfig # Null
          /\ newConfig.type = NewCollectionOf["siteConfig"]
          /\ newConfig.title = oldConfig.title
          /\ newConfig.ver = NSID_MIGRATION_VERSION

\* C25: a run of migrateOwnerNsidRecordsImpl that started with the tenant's
\* new-namespace config carrying nsidMigrationVersion at the current version
\* issues no putRecord call and no listRecords call.
ImplPcs ==
  {"implGetOld", "implGetNew", "implPutSingleton", "implDeleteSingleton",
   "implListOld", "implListNew", "implPutList", "implDeleteList"}

C25_ImplSkipsWhenMarked ==
  \A t \in Tabs :
    (/\ run[t].pc \in ImplPcs
     /\ Marker(snap[t], run[t].did) >= NSID_MIGRATION_VERSION)
    => (calls[t].put = 0 /\ calls[t].list = 0)

\* C26: after a successful run of migrateOwnerNsidRecords the fields of the
\* new-namespace config other than $type and the marker (here: the title)
\* are those of the new-namespace config that existed when the run started
\* if there was one, otherwise those of the old-namespace config, otherwise
\* those of the minimal default.
C26_ConfigBasePreference ==
  \A t \in Tabs :
    LET startNew == StoreGet(snap[t], "T", NewCollectionOf["siteConfig"], CONFIG_RKEY)
        startOld == StoreGet(snap[t], "T", OldCollectionOf["siteConfig"], CONFIG_RKEY)
        newConfig == StoreGet(store, "T", NewCollectionOf["siteConfig"], CONFIG_RKEY)
    IN (/\ Finished(t)
        /\ run[t].did = "T"
        /\ outcome[t].last = "completed"
        /\ calls[t].failed = 0)
       => /\ newConfig # Null
          /\ newConfig.title = (IF startNew # Null THEN startNew.title
                                ELSE IF startOld # Null THEN startOld.title
                                ELSE "My Garden")

\* C27: within one listing by listAllRecordsForCollection of
\* config/nsid-migration.ts the listing stops at the response that carries a
\* cursor equal to the one just sent or to one received before, with the
\* records of that response in the result; a listing that goes on does so
\* with a cursor it has not sent before, so no cursor is sent twice.
C27_NoCursorSentTwice ==
  [][\A t \in Tabs :
       (/\ run[t].pc = "listPage"
        /\ run[t].caller = "impl"
        /\ run'[t].pc \in {"listPage", "listReturned"}
        /\ run'[t] # run[t])
       => LET ls == run[t].listing
              next == run'[t].listing
          IN /\ ls.cursor # NoCursor => ls.cursor \in ls.seen
             /\ run'[t].result
                => (run'[t].pc = "listReturned" /\ next.all = run'[t].served)
             /\ run'[t].pc = "listPage"
                => /\ next.cursor \notin ls.seen \cup {ls.cursor, NoCursor}
                   /\ next.seen = ls.seen \cup {next.cursor}]_vars

\* the third response repeated a cursor: the listing returned after three
\* requests with one record from each page
C27_Witness ==
  \E t \in MainTabs :
    /\ run[t].pc = "listReturned"
    /\ run[t].caller = "impl"
    /\ run[t].result
    /\ run[t].listing.loops = 3
    /\ Cardinality(run[t].listing.seen) = 2
    /\ Len(run[t].listing.all) = 3
    /\ run[t].listing.all = run[t].served

\* C28: in a run of migrateOwnerNsidRecordsImpl with no other writer, a step
\* removes an old-namespace record at key k only when the new namespace holds a
\* record at k, and at every point of the run (in progress, completed or
\* aborted at any store call) each record the old namespace held when the run
\* started is present in at least one of the two namespaces.
C28_ImplNeverLosesRecord ==
  /\ [](\A t \in MainTabs : \A d \in DIDs : \A key \in CollectionKeys :
         \A k \in DOMAIN snap[t][d][getCollection(key, "old")] :
            \/ k \in DOMAIN store[d][getCollection(key, "old")]
            \/ k \in DOMAIN store[d][getCollection(key, "new")])
  /\ [][\A d \in DIDs : \A key \in CollectionKeys :
         \A k \in DOMAIN store[d][getCollection(key, "old")] :
            k \notin DOMAIN store'[d][getCollection(key, "old")]
              => /\ k \in DOMAIN store'[d][getCollection(key, "new")]
                 /\ \E t \in MainTabs : run[t].pc \in ImplPcs]_vars

\* an aborted Impl run that had already deleted an old record whose copy is in
\* the new namespace
C28_Witness ==
  \E t \in MainTabs : \E key \in CollectionKeys :
    /\ outcome[t].last = "aborted"
    /\ run[t].pc = "idle"
    /\ \E k \in DOMAIN snap[t]["T"][getCollection(key, "old")] :
         /\ k \notin DOMAIN store["T"][getCollection(key, "old")]
         /\ k \in DOMAIN store["T"][getCollection(key, "new")]
    /\ \E key2 \in CollectionKeys : store["T"][getCollection(key2, "old")] # EmptyCollection

\* C29: with two runs of migrateOwnerNsidRecords for one tenant interleaved at
\* store-call granularity, once a new-namespace config carrying
\* nsidMigrationVersion = V is in the store, no later write of either run
\* replaces it with a config without the marker or with a lower value.
C29_InterleavedRunsKeepMarker ==
  [][\A d \in DIDs :
       Marker(store, d) > 0
         => /\ Has(store', d, NewCollectionOf["siteConfig"], CONFIG_RKEY)
            /\ store'[d][NewCollectionOf["siteConfig"]][CONFIG_RKEY].ver >= Marker(store, d)]_vars

\* the new-namespace config of did is one the owner saved after an edit
SavedConfig(st, did) ==
  /\ Has(st, did, NewCollectionOf["siteConfig"], CONFIG_RKEY)
  /\ st[did][NewCollectionOf["siteConfig"]][CONFIG_RKEY].title \in EditedTitles

\* C30: a run of migrateOwnerNsidRecords never overwrites a new-namespace
\* record the owner wrote through saveConfig: when the new-namespace config is
\* one saved from another page while the run was suspended, no write of the
\* run changes it, so the saved values are still there when the run completes.
C30_RunKeepsSavedConfig ==
  [][\A t \in Tabs :
       (/\ run[t].pc \notin {"idle", "load"}
        /\ calls'[t].put = calls[t].put + 1
        /\ SavedConfig(store, run[t].did))
       => /\ SavedConfig(store', run[t].did)
          /\ store'[run[t].did][NewCollectionOf["siteConfig"]][CONFIG_RKEY].title
               = store[run[t].did][NewCollectionOf["siteConfig"]][CONFIG_RKEY].title]_vars

====
